---------------------------- MODULE Spec2Model ----------------------------
(***************************************************************************)
(* State-machine model of the CDP engine module                            *)
(* (src/modules/cdp_engine/src/lib.rs).                                    *)
(*                                                                         *)
(* Storage of the module (IsShutdown, DebitExchangeRate,                   *)
(* GlobalStabilityFee, CollateralParams) is modelled variable by variable. *)
(* The collaborators the module calls through traits (the loans ledger,    *)
(* the CDP treasury, the DEX, the price source) are modelled by their call *)
(* contracts.  Fixed-point numbers (FixedU128) are modelled by their inner *)
(* integer with a scaled-down accuracy FixedDiv and a scaled-down width    *)
(* MaxU128; Option<T> is modelled as a sequence of length 0 or 1.          *)
(***************************************************************************)
EXTENDS Integers, Sequences, FiniteSets, TLC

VARIABLES
    is_shutdown,            \* IsShutdown
    debit_exchange_rate,    \* DebitExchangeRate: CurrencyId -> Option<ExchangeRate>
    global_stability_fee,   \* GlobalStabilityFee
    collateral_params,      \* CollateralParams: CurrencyId -> RiskManagementParams
    debits,                 \* loans::Debits, keyed <<currency_id, who>>
    collaterals,            \* loans::Collaterals, keyed <<currency_id, who>>
    free,                   \* owners' free balance of each collateral, keyed <<currency_id, who>>
    treasury_collateral,    \* collateral held by the CDP treasury, per currency
    dex_collateral,         \* collateral the DEX took in swaps with the treasury, per currency
    collateral_in_auction,  \* collateral of the treasury put up in auctions, per currency
    oracle,                 \* price source: <<from, to>> -> Option<Price>
    max_slippage,           \* T::MaxSlippageSwapWithDEX (runtime configuration)
    default_rate,           \* T::DefaultDebitExchangeRate (runtime configuration)
    offchain_position,      \* the position index kept with the offchain lock (extra_data)
    offchain_lock,          \* the offchain lock is held (acquired and not yet expired)
    offchain_lock_near,     \* the lock that is held is near its expiry
    stalled,                \* the runs suspended in their iteration: [position, observed,
                            \* done, pending, holds]
    scan_log,               \* history: positions of the latest runs that acquired the lock
    blocks,                 \* number of blocks finalized so far
    liquidated,             \* history: positions liquidated and not adjusted since
    last                    \* history: the last call, its inputs, pre-state and outcome

vars == <<is_shutdown, debit_exchange_rate, global_stability_fee, collateral_params,
          debits, collaterals, free, treasury_collateral, oracle, max_slippage,
          default_rate, dex_collateral, collateral_in_auction, offchain_position,
          offchain_lock, offchain_lock_near, stalled, scan_log, blocks, liquidated, last>>

----------------------------------------------------------------------------
(* Option<T> *)

None == <<>>
Some(v) == <<v>>
IsSome(o) == Len(o) = 1
Unwrap(o) == o[1]
UnwrapOr(o, d) == IF IsSome(o) THEN o[1] ELSE d

Min(a, b) == IF a <= b THEN a ELSE b

----------------------------------------------------------------------------
(* Numerics: Balance = u128, FixedU128 = u128 inner value over DIV.        *)

\* Accuracy of FixedU128 (10^18 in the runtime), scaled down.
FixedDiv == 10

\* u128::MAX, scaled down: the largest Balance and the largest inner value.
MaxU128 == 4095

Saturate(v) == IF v > MaxU128 THEN MaxU128 ELSE v

\* addition that wraps around at the width instead of saturating
wrapping_add(a, b) == (a + b) % (MaxU128 + 1)

\* FixedPointNumber::saturating_add
saturating_add(a, b) == Saturate(a + b)

\* FixedPointNumber::saturating_mul: floor(a * b / DIV), saturating
saturating_mul(a, b) == Saturate((a * b) \div FixedDiv)

\* FixedPointNumber::saturating_mul_int: floor(f * n / DIV), saturating
saturating_mul_int(f, n) == Saturate((f * n) \div FixedDiv)

\* FixedPointNumber::checked_from_rational: None when d = 0 or on overflow
checked_from_rational(n, d) ==
    IF d = 0 THEN None
    ELSE IF (n * FixedDiv) \div d > MaxU128 THEN None
    ELSE Some((n * FixedDiv) \div d)

----------------------------------------------------------------------------
(* Runtime configuration (trait Trait).                                    *)

BTC == "BTC"
DOT == "DOT"
ACA == "ACA"
AUSD == "AUSD"

\* T::CollateralCurrencyIds, in declared order
CollateralCurrencyIds == <<BTC, DOT>>
AllowedCollaterals == {CollateralCurrencyIds[i] : i \in 1..Len(CollateralCurrencyIds)}
\* every currency id a call may name (ACA is not a collateral)
CurrencyIds == AllowedCollaterals \cup {ACA}
\* T::GetStableCurrencyId
GetStableCurrencyId == AUSD

ALICE == "ALICE"
BOB == "BOB"
AccountIds == {ALICE, BOB}

\* T::DefaultLiquidationRatio = 1.5
DefaultLiquidationRatio == 15
\* T::DefaultDebitExchangeRate is the configuration variable default_rate
\* T::DefaultLiquidationPenalty = 0.1
DefaultLiquidationPenalty == 1
\* T::MinimumDebitValue
MinimumDebitValue == 100

Positions == AllowedCollaterals \X AccountIds

----------------------------------------------------------------------------
(* Read accessors of the module.                                           *)

maximum_total_debit_value(currency_id) ==
    collateral_params[currency_id].maximum_total_debit_value

required_collateral_ratio(currency_id) ==
    collateral_params[currency_id].required_collateral_ratio

get_stability_fee(currency_id) ==
    saturating_add(UnwrapOr(collateral_params[currency_id].stability_fee, 0),
                   global_stability_fee)

get_liquidation_ratio(currency_id) ==
    UnwrapOr(collateral_params[currency_id].liquidation_ratio, DefaultLiquidationRatio)

get_liquidation_penalty(currency_id) ==
    UnwrapOr(collateral_params[currency_id].liquidation_penalty, DefaultLiquidationPenalty)

get_debit_exchange_rate(currency_id) ==
    UnwrapOr(debit_exchange_rate[currency_id], default_rate)

\* DebitExchangeRateConvertor::convert: debit units times the exchange rate
get_debit_value(currency_id, debit_balance) ==
    saturating_mul_int(get_debit_exchange_rate(currency_id), debit_balance)

calculate_collateral_ratio(currency_id, collateral_balance, debit_balance, price) ==
    LET locked_collateral_value == saturating_mul_int(price, collateral_balance)
        debit_value == get_debit_value(currency_id, debit_balance)
    IN  UnwrapOr(checked_from_rational(locked_collateral_value, debit_value), 0)

\* T::PriceSource::get_relative_price
get_relative_price(from, to) == oracle[<<from, to>>]

\* loans::Module::total_debits
total_debits(currency_id) ==
    LET RECURSIVE Sum(_)
        Sum(S) == IF S = {} THEN 0
                  ELSE LET a == CHOOSE x \in S : TRUE
                       IN  debits[<<currency_id, a>>] + Sum(S \ {a})
    IN  Sum(AccountIds)

----------------------------------------------------------------------------
(* Risk manager.                                                           *)

\* is_cdp_unsafe without the zero-debit case of lib.rs 545
is_cdp_unsafe_zero_debit(currency_id, who) ==
    LET feed_price == get_relative_price(currency_id, GetStableCurrencyId)
    IN  IF IsSome(feed_price)
        THEN calculate_collateral_ratio(currency_id, collaterals[<<currency_id, who>>],
                                        debits[<<currency_id, who>>], Unwrap(feed_price))
             < get_liquidation_ratio(currency_id)
        ELSE FALSE

\* is_cdp_unsafe with "ratio <= liquidation ratio" for "ratio < liquidation ratio"
is_cdp_unsafe_at_ratio(currency_id, who) ==
    LET feed_price == get_relative_price(currency_id, GetStableCurrencyId)
    IN  IF debits[<<currency_id, who>>] = 0 THEN FALSE
        ELSE IF IsSome(feed_price)
             THEN calculate_collateral_ratio(currency_id, collaterals[<<currency_id, who>>],
                                             debits[<<currency_id, who>>], Unwrap(feed_price))
                  <= get_liquidation_ratio(currency_id)
             ELSE FALSE

is_cdp_unsafe(currency_id, who) ==
    LET debit_balance == debits[<<currency_id, who>>]
        collateral_balance == collaterals[<<currency_id, who>>]
        feed_price == get_relative_price(currency_id, GetStableCurrencyId)
    IN  IF debit_balance = 0 THEN FALSE
        ELSE IF IsSome(feed_price)
             THEN calculate_collateral_ratio(currency_id, collateral_balance,
                                             debit_balance, Unwrap(feed_price))
                  < get_liquidation_ratio(currency_id)
             ELSE FALSE

\* check_position_valid with the liquidation ratio checked before the required ratio
check_position_valid_reordered(currency_id, collateral_balance, debit_balance) ==
    LET debit_value == get_debit_value(currency_id, debit_balance)
        feed_price == get_relative_price(currency_id, GetStableCurrencyId)
        collateral_ratio == calculate_collateral_ratio(currency_id, collateral_balance,
                                                       debit_balance, Unwrap(feed_price))
    IN  IF debit_value # 0
        THEN IF ~IsSome(feed_price) THEN "InvalidFeedPrice"
             ELSE IF ~(collateral_ratio >= get_liquidation_ratio(currency_id))
                  THEN "BelowLiquidationRatio"
             ELSE IF IsSome(required_collateral_ratio(currency_id))
                     /\ ~(collateral_ratio >= Unwrap(required_collateral_ratio(currency_id)))
                  THEN "BelowRequiredCollateralRatio"
             ELSE IF ~(debit_value >= MinimumDebitValue)
                  THEN "RemainDebitValueTooSmall"
             ELSE "Ok"
        ELSE "Ok"

check_position_valid(currency_id, collateral_balance, debit_balance) ==
    LET debit_value == get_debit_value(currency_id, debit_balance)
        feed_price == get_relative_price(currency_id, GetStableCurrencyId)
        collateral_ratio == calculate_collateral_ratio(currency_id, collateral_balance,
                                                       debit_balance, Unwrap(feed_price))
    IN  IF debit_value # 0
        THEN IF ~IsSome(feed_price) THEN "InvalidFeedPrice"
             ELSE IF IsSome(required_collateral_ratio(currency_id))
                     /\ ~(collateral_ratio >= Unwrap(required_collateral_ratio(currency_id)))
                  THEN "BelowRequiredCollateralRatio"
             ELSE IF ~(collateral_ratio >= get_liquidation_ratio(currency_id))
                  THEN "BelowLiquidationRatio"
             ELSE IF ~(debit_value >= MinimumDebitValue)
                  THEN "RemainDebitValueTooSmall"
             ELSE "Ok"
        ELSE "Ok"

\* check_debit_cap that lets every total pass
check_debit_cap_skipped(currency_id, total_debit_balance) == "Ok"

check_debit_cap(currency_id, total_debit_balance) ==
    LET hard_cap == maximum_total_debit_value(currency_id)
        total_debit_value == get_debit_value(currency_id, total_debit_balance)
    IN  IF total_debit_value <= hard_cap THEN "Ok" ELSE "ExceedDebitValueHardCap"

----------------------------------------------------------------------------
(* Origins of a dispatch and the origin checks of frame_system.            *)

Origins == {"None", "Signed", "Root", "UpdateOrigin"}

ensure_none(origin) == IF origin = "None" THEN "Ok" ELSE "BadOrigin"

\* an origin check that lets every signed origin pass
ensure_update_origin_signed(origin) ==
    IF origin \in {"UpdateOrigin", "Root", "Signed"} THEN "Ok" ELSE "BadOrigin"

\* T::UpdateOrigin::try_origin(origin).map(|_| ()).or_else(ensure_root)
ensure_update_origin(origin) ==
    IF origin = "UpdateOrigin" \/ origin = "Root" THEN "Ok" ELSE "BadOrigin"

----------------------------------------------------------------------------
(* Liquidation.                                                            *)

Call(fn, args) == [fn |-> fn, args |-> args]
Event(name, args) == [name |-> name, args |-> args]

\* the decision with "collateral > supply" for "collateral >= supply"
liquidation_strategy_strict(collateral_balance, supply_collateral_amount, exchange_slippage, slippage_limit) ==
    IF /\ supply_collateral_amount # 0
       /\ collateral_balance > supply_collateral_amount
       /\ slippage_limit > 0
       /\ (IF IsSome(exchange_slippage) THEN Unwrap(exchange_slippage) <= slippage_limit
           ELSE FALSE)
    THEN "Exchange" ELSE "Auction"

\* the decision without "collateral >= supply"
liquidation_strategy_any_supply(collateral_balance, supply_collateral_amount, exchange_slippage, slippage_limit) ==
    IF /\ supply_collateral_amount # 0
       /\ slippage_limit > 0
       /\ (IF IsSome(exchange_slippage) THEN Unwrap(exchange_slippage) <= slippage_limit
           ELSE FALSE)
    THEN "Exchange" ELSE "Auction"

\* lib.rs 666-674: the DEX-or-auction decision
liquidation_strategy(collateral_balance, supply_collateral_amount, exchange_slippage, slippage_limit) ==
    IF /\ supply_collateral_amount # 0
       /\ collateral_balance >= supply_collateral_amount
       /\ slippage_limit > 0
       /\ (IF IsSome(exchange_slippage) THEN Unwrap(exchange_slippage) <= slippage_limit
           ELSE FALSE)
    THEN "Exchange" ELSE "Auction"

\* the target without the liquidation penalty
target_without_penalty(currency_id, bad_debt_value) == bad_debt_value

\* lib.rs 657-658
target_stable_amount(currency_id, bad_debt_value) ==
    saturating_add(bad_debt_value,
                   saturating_mul_int(get_liquidation_penalty(currency_id), bad_debt_value))

\* the refund with the supplied amount for the remainder
refund_supplied_amount(collateral_balance, supply_collateral_amount) ==
    supply_collateral_amount

\* the refund of the whole collateral
refund_whole_collateral(collateral_balance, supply_collateral_amount) ==
    collateral_balance

\* lib.rs 686: what is left of the collateral after the swap
refund_collateral_amount(collateral_balance, supply_collateral_amount) ==
    collateral_balance - supply_collateral_amount

\* lib.rs 653-711: liquidate_unsafe_cdp once the position is known to be unsafe.  The
\* answers of the collaborators are confiscate_ok (the ledger's confiscation), supply
\* and slip (the DEX quote) and swap_ok (the treasury's swap).
confiscate_and_liquidate(who, currency_id, confiscate_ok, supply, slip, swap_ok) ==
    LET debit_balance == debits[<<currency_id, who>>]
        collateral_balance == collaterals[<<currency_id, who>>]
        bad_debt_value == get_debit_value(currency_id, debit_balance)
        target == target_stable_amount(currency_id, bad_debt_value)
        strategy == liquidation_strategy(collateral_balance, supply, slip, max_slippage)
        refund == refund_collateral_amount(collateral_balance, supply)
        confiscated == treasury_collateral[currency_id] + collateral_balance
        swapped == strategy = "Exchange" /\ swap_ok
        refunded == swapped /\ refund # 0
        quotes == << Call("confiscate_collateral_and_debit",
                          <<who, currency_id, collateral_balance, debit_balance>>),
                     Call("get_supply_amount", <<currency_id, GetStableCurrencyId, target>>),
                     Call("get_exchange_slippage", <<currency_id, GetStableCurrencyId, supply>>) >>
        unchanged == [debits |-> debits, collaterals |-> collaterals, free |-> free,
                      treasury_collateral |-> treasury_collateral,
                      dex_collateral |-> dex_collateral,
                      collateral_in_auction |-> collateral_in_auction, quote |-> None,
                      swap |-> None]
    IN  IF ~confiscate_ok
        THEN unchanged @@ [result |-> "ConfiscateFailed",
                           calls |-> << quotes[1] >>, events |-> <<>>]
        ELSE IF refunded /\ (refund < 0 \/ confiscated - supply < refund)
        THEN \* transfer_collateral_to(..).expect("never failed")
             unchanged @@ [result |-> "Panic", calls |-> quotes, events |-> <<>>]
        ELSE [ result |-> "Ok",
               quote |-> Some([supply |-> supply, slip |-> slip]),
               swap |-> IF strategy = "Exchange" THEN Some(swap_ok) ELSE None,
               debits |-> [debits EXCEPT ![<<currency_id, who>>] = 0],
               collaterals |-> [collaterals EXCEPT ![<<currency_id, who>>] = 0],
               free |-> IF refunded
                        THEN [free EXCEPT ![<<currency_id, who>>] = @ + refund]
                        ELSE free,
               treasury_collateral |->
                   [treasury_collateral EXCEPT ![currency_id] =
                       IF swapped THEN confiscated - supply - (IF refunded THEN refund ELSE 0)
                       ELSE confiscated],
               dex_collateral |->
                   IF swapped THEN [dex_collateral EXCEPT ![currency_id] = @ + supply]
                   ELSE dex_collateral,
               collateral_in_auction |->
                   IF strategy = "Auction"
                   THEN [collateral_in_auction EXCEPT ![currency_id] = @ + collateral_balance]
                   ELSE collateral_in_auction,
               calls |-> quotes \o
                   (IF strategy = "Exchange"
                    THEN << Call("swap_collateral_to_stable", <<currency_id, supply, target>>) >>
                         \o (IF refunded
                             THEN << Call("transfer_collateral_to",
                                          <<currency_id, who, refund>>) >>
                             ELSE <<>>)
                    ELSE << Call("create_collateral_auctions",
                                 <<currency_id, collateral_balance, target, who>>) >>),
               events |-> << Event("LiquidateUnsafeCDP",
                                   <<currency_id, who, collateral_balance, bad_debt_value,
                                     strategy>>) >> ]

\* liquidate_unsafe_cdp without the check of lib.rs 651
liquidate_unsafe_cdp_unchecked(who, currency_id, confiscate_ok, supply, slip, swap_ok) ==
    confiscate_and_liquidate(who, currency_id, confiscate_ok, supply, slip, swap_ok)

\* liquidate_unsafe_cdp(who, currency_id), lib.rs 645-712
liquidate_unsafe_cdp(who, currency_id, confiscate_ok, supply, slip, swap_ok) ==
    IF ~is_cdp_unsafe(currency_id, who)
    THEN [result |-> "MustBeUnsafe", calls |-> <<>>, events |-> <<>>, quote |-> None,
          swap |-> None, debits |-> debits, collaterals |-> collaterals, free |-> free,
          treasury_collateral |-> treasury_collateral, dex_collateral |-> dex_collateral,
          collateral_in_auction |-> collateral_in_auction]
    ELSE confiscate_and_liquidate(who, currency_id, confiscate_ok, supply, slip, swap_ok)

\* The dispatchable liquidate(origin, currency_id, who), lib.rs 272-280.
liquidate(origin, currency_id, who, confiscate_ok, supply, slip, swap_ok) ==
    LET rejected == [calls |-> <<>>, events |-> <<>>, quote |-> None, swap |-> None,
                     debits |-> debits, collaterals |-> collaterals, free |-> free,
                     treasury_collateral |-> treasury_collateral,
                     dex_collateral |-> dex_collateral,
                     collateral_in_auction |-> collateral_in_auction]
        out == IF ensure_none(origin) # "Ok" THEN rejected @@ [result |-> "BadOrigin"]
               ELSE IF is_shutdown THEN rejected @@ [result |-> "AlreadyShutdown"]
               ELSE liquidate_unsafe_cdp(who, currency_id, confiscate_ok, supply, slip, swap_ok)
    IN  /\ debits' = out.debits
        /\ collaterals' = out.collaterals
        /\ free' = out.free
        /\ treasury_collateral' = out.treasury_collateral
        /\ dex_collateral' = out.dex_collateral
        /\ collateral_in_auction' = out.collateral_in_auction
        /\ liquidated' = IF out.result = "Ok" THEN liquidated \cup {<<currency_id, who>>}
                         ELSE liquidated
        /\ last' = [op |-> "liquidate", origin |-> origin, currency_id |-> currency_id,
                    who |-> who, quote |-> out.quote, swap |-> out.swap,
                    result |-> out.result, calls |-> out.calls, events |-> out.events]
        /\ UNCHANGED <<is_shutdown, debit_exchange_rate, global_stability_fee,
                       collateral_params, oracle, max_slippage, default_rate,
                       offchain_position, offchain_lock, offchain_lock_near, stalled,
                       scan_log, blocks>>

----------------------------------------------------------------------------
(* Settlement after shutdown.                                              *)

\* settlement that confiscates the whole collateral instead of the smaller of the two
settle_cdp_has_debit_whole_collateral(who, currency_id, confiscate_ok) ==
    LET debit_balance == debits[<<currency_id, who>>]
        collateral_balance == collaterals[<<currency_id, who>>]
        settle_price == get_relative_price(GetStableCurrencyId, currency_id)
        unchanged == [debits |-> debits, collaterals |-> collaterals,
                      treasury_collateral |-> treasury_collateral]
        call == Call("confiscate_collateral_and_debit",
                     <<who, currency_id, collateral_balance, debit_balance>>)
    IN  IF debit_balance = 0
        THEN unchanged @@ [result |-> "NoDebitValue", calls |-> <<>>, events |-> <<>>]
        ELSE IF ~IsSome(settle_price)
        THEN unchanged @@ [result |-> "InvalidFeedPrice", calls |-> <<>>, events |-> <<>>]
        ELSE IF ~confiscate_ok
        THEN unchanged @@ [result |-> "ConfiscateFailed", calls |-> <<call>>, events |-> <<>>]
        ELSE [ result |-> "Ok",
               debits |-> [debits EXCEPT ![<<currency_id, who>>] = 0],
               collaterals |-> [collaterals EXCEPT ![<<currency_id, who>>] = 0],
               treasury_collateral |-> [treasury_collateral EXCEPT ![currency_id] =
                                            @ + collateral_balance],
               calls |-> <<call>>,
               events |-> << Event("SettleCDPInDebit", <<currency_id, who>>) >> ]

\* settlement without the NoDebitValue check
settle_cdp_has_debit_any_debit(who, currency_id, confiscate_ok) ==
    LET debit_balance == debits[<<currency_id, who>>]
        collateral_balance == collaterals[<<currency_id, who>>]
        settle_price == get_relative_price(GetStableCurrencyId, currency_id)
        bad_debt_value == get_debit_value(currency_id, debit_balance)
        confiscate_collateral_amount ==
            Min(saturating_mul_int(Unwrap(settle_price), bad_debt_value), collateral_balance)
        unchanged == [debits |-> debits, collaterals |-> collaterals,
                      treasury_collateral |-> treasury_collateral]
        call == Call("confiscate_collateral_and_debit",
                     <<who, currency_id, confiscate_collateral_amount, debit_balance>>)
    IN  IF ~IsSome(settle_price)
        THEN unchanged @@ [result |-> "InvalidFeedPrice", calls |-> <<>>, events |-> <<>>]
        ELSE IF ~confiscate_ok
        THEN unchanged @@ [result |-> "ConfiscateFailed", calls |-> <<call>>, events |-> <<>>]
        ELSE [ result |-> "Ok",
               debits |-> [debits EXCEPT ![<<currency_id, who>>] = 0],
               collaterals |-> [collaterals EXCEPT ![<<currency_id, who>>] =
                                    @ - confiscate_collateral_amount],
               treasury_collateral |-> [treasury_collateral EXCEPT ![currency_id] =
                                            @ + confiscate_collateral_amount],
               calls |-> <<call>>,
               events |-> << Event("SettleCDPInDebit", <<currency_id, who>>) >> ]

settle_cdp_has_debit(who, currency_id, confiscate_ok) ==
    LET debit_balance == debits[<<currency_id, who>>]
        collateral_balance == collaterals[<<currency_id, who>>]
        settle_price == get_relative_price(GetStableCurrencyId, currency_id)
        bad_debt_value == get_debit_value(currency_id, debit_balance)
        confiscate_collateral_amount ==
            Min(saturating_mul_int(Unwrap(settle_price), bad_debt_value), collateral_balance)
        unchanged == [debits |-> debits, collaterals |-> collaterals,
                      treasury_collateral |-> treasury_collateral]
    IN  IF debit_balance = 0
        THEN unchanged @@ [result |-> "NoDebitValue", calls |-> <<>>, events |-> <<>>]
        ELSE IF ~IsSome(settle_price)
        THEN unchanged @@ [result |-> "InvalidFeedPrice", calls |-> <<>>, events |-> <<>>]
        ELSE IF ~confiscate_ok
        THEN unchanged @@
             [result |-> "ConfiscateFailed",
              calls |-> << Call("confiscate_collateral_and_debit",
                                <<who, currency_id, confiscate_collateral_amount,
                                  debit_balance>>) >>,
              events |-> <<>>]
        ELSE [ result |-> "Ok",
               debits |-> [debits EXCEPT ![<<currency_id, who>>] = 0],
               collaterals |-> [collaterals EXCEPT ![<<currency_id, who>>] =
                                    @ - confiscate_collateral_amount],
               treasury_collateral |-> [treasury_collateral EXCEPT ![currency_id] =
                                            @ + confiscate_collateral_amount],
               calls |-> << Call("confiscate_collateral_and_debit",
                                 <<who, currency_id, confiscate_collateral_amount,
                                   debit_balance>>) >>,
               events |-> << Event("SettleCDPInDebit", <<currency_id, who>>) >> ]

\* settle without the shutdown check
settle_before_shutdown(origin, currency_id, who, confiscate_ok) ==
    LET out == IF ensure_none(origin) # "Ok"
               THEN [result |-> "BadOrigin", calls |-> <<>>, events |-> <<>>,
                     debits |-> debits, collaterals |-> collaterals,
                     treasury_collateral |-> treasury_collateral]
               ELSE settle_cdp_has_debit(who, currency_id, confiscate_ok)
    IN  /\ debits' = out.debits
        /\ collaterals' = out.collaterals
        /\ treasury_collateral' = out.treasury_collateral
        /\ last' = [op |-> "settle", origin |-> origin, currency_id |-> currency_id,
                    who |-> who, result |-> out.result, calls |-> out.calls,
                    events |-> out.events]
        /\ UNCHANGED <<is_shutdown, debit_exchange_rate, global_stability_fee,
                       collateral_params, free, oracle, max_slippage, default_rate, dex_collateral, collateral_in_auction,
                       offchain_position, offchain_lock, offchain_lock_near, stalled,
                       scan_log, blocks, liquidated>>

\* The dispatchable settle(origin, currency_id, who), lib.rs 300-308.
settle(origin, currency_id, who, confiscate_ok) ==
    LET out == IF ensure_none(origin) # "Ok"
               THEN [result |-> "BadOrigin", calls |-> <<>>, events |-> <<>>,
                     debits |-> debits, collaterals |-> collaterals,
                     treasury_collateral |-> treasury_collateral]
               ELSE IF ~is_shutdown
               THEN [result |-> "MustAfterShutdown", calls |-> <<>>, events |-> <<>>,
                     debits |-> debits, collaterals |-> collaterals,
                     treasury_collateral |-> treasury_collateral]
               ELSE settle_cdp_has_debit(who, currency_id, confiscate_ok)
    IN  /\ debits' = out.debits
        /\ collaterals' = out.collaterals
        /\ treasury_collateral' = out.treasury_collateral
        /\ last' = [op |-> "settle", origin |-> origin, currency_id |-> currency_id,
                    who |-> who, result |-> out.result, calls |-> out.calls,
                    events |-> out.events]
        /\ UNCHANGED <<is_shutdown, debit_exchange_rate, global_stability_fee,
                       collateral_params, free, oracle, max_slippage, default_rate, dex_collateral, collateral_in_auction,
                       offchain_position, offchain_lock, offchain_lock_near, stalled,
                       scan_log, blocks, liquidated>>

----------------------------------------------------------------------------
(* Parameter updates.                                                      *)

\* orml_traits::Change<T>: NoChange, or NewValue(v)
NoChange == None
NewValue(v) == Some(v)

\* The dispatchable set_global_params(origin, global_stability_fee), lib.rs 324-333.
set_global_params(origin, fee) ==
    LET ok == ensure_update_origin(origin) = "Ok"
    IN  /\ global_stability_fee' = IF ok THEN fee ELSE global_stability_fee
        /\ last' = [op |-> "set_global_params", origin |-> origin, fee |-> fee,
                    result |-> IF ok THEN "Ok" ELSE "BadOrigin",
                    calls |-> <<>>,
                    events |-> IF ok THEN << Event("GlobalStabilityFeeUpdated", <<fee>>) >>
                               ELSE <<>>]
        /\ UNCHANGED <<is_shutdown, debit_exchange_rate, collateral_params, debits,
                       collaterals, free, treasury_collateral, oracle, max_slippage, default_rate, dex_collateral, collateral_in_auction,
                       offchain_position, offchain_lock, offchain_lock_near, stalled,
                       scan_log,
                       blocks, liquidated>>

\* a patch that writes the liquidation penalty into the liquidation ratio
patched_collateral_params_misplaced(currency_id, change) ==
    LET p0 == collateral_params[currency_id]
        p1 == IF IsSome(change[1])
              THEN [p0 EXCEPT !.stability_fee = Unwrap(change[1])] ELSE p0
        p2 == IF IsSome(change[2])
              THEN [p1 EXCEPT !.liquidation_ratio = Unwrap(change[2])] ELSE p1
        p3 == IF IsSome(change[3])
              THEN [p2 EXCEPT !.liquidation_ratio = Unwrap(change[3])] ELSE p2
        p4 == IF IsSome(change[4])
              THEN [p3 EXCEPT !.required_collateral_ratio = Unwrap(change[4])] ELSE p3
    IN  IF IsSome(change[5])
        THEN [p4 EXCEPT !.maximum_total_debit_value = Unwrap(change[5])] ELSE p4

\* lib.rs 371-391: the struct patched field by field; change is the tuple of the five
\* Change arguments in the order of the call
patched_collateral_params(currency_id, change) ==
    LET p0 == collateral_params[currency_id]
        p1 == IF IsSome(change[1])
              THEN [p0 EXCEPT !.stability_fee = Unwrap(change[1])] ELSE p0
        p2 == IF IsSome(change[2])
              THEN [p1 EXCEPT !.liquidation_ratio = Unwrap(change[2])] ELSE p1
        p3 == IF IsSome(change[3])
              THEN [p2 EXCEPT !.liquidation_penalty = Unwrap(change[3])] ELSE p2
        p4 == IF IsSome(change[4])
              THEN [p3 EXCEPT !.required_collateral_ratio = Unwrap(change[4])] ELSE p3
    IN  IF IsSome(change[5])
        THEN [p4 EXCEPT !.maximum_total_debit_value = Unwrap(change[5])] ELSE p4

\* events only for the fields whose new value differs from the stored one
collateral_params_events_on_change(currency_id, change) ==
    LET p == collateral_params[currency_id]
    IN  (IF IsSome(change[1]) /\ Unwrap(change[1]) # p.stability_fee
         THEN << Event("StabilityFeeUpdated", <<currency_id, Unwrap(change[1])>>) >>
         ELSE <<>>)
        \o (IF IsSome(change[2]) /\ Unwrap(change[2]) # p.liquidation_ratio
            THEN << Event("LiquidationRatioUpdated", <<currency_id, Unwrap(change[2])>>) >>
            ELSE <<>>)
        \o (IF IsSome(change[3]) /\ Unwrap(change[3]) # p.liquidation_penalty
            THEN << Event("LiquidationPenaltyUpdated", <<currency_id, Unwrap(change[3])>>) >>
            ELSE <<>>)
        \o (IF IsSome(change[4]) /\ Unwrap(change[4]) # p.required_collateral_ratio
            THEN << Event("RequiredCollateralRatioUpdated",
                          <<currency_id, Unwrap(change[4])>>) >>
            ELSE <<>>)
        \o (IF IsSome(change[5]) /\ Unwrap(change[5]) # p.maximum_total_debit_value
            THEN << Event("MaximumTotalDebitValueUpdated",
                          <<currency_id, Unwrap(change[5])>>) >>
            ELSE <<>>)

\* lib.rs 372-391: one event per field given as NewValue, in the order of the fields
collateral_params_events(currency_id, change) ==
    (IF IsSome(change[1])
     THEN << Event("StabilityFeeUpdated", <<currency_id, Unwrap(change[1])>>) >>
     ELSE <<>>)
    \o (IF IsSome(change[2])
        THEN << Event("LiquidationRatioUpdated", <<currency_id, Unwrap(change[2])>>) >>
        ELSE <<>>)
    \o (IF IsSome(change[3])
        THEN << Event("LiquidationPenaltyUpdated", <<currency_id, Unwrap(change[3])>>) >>
        ELSE <<>>)
    \o (IF IsSome(change[4])
        THEN << Event("RequiredCollateralRatioUpdated", <<currency_id, Unwrap(change[4])>>) >>
        ELSE <<>>)
    \o (IF IsSome(change[5])
        THEN << Event("MaximumTotalDebitValueUpdated", <<currency_id, Unwrap(change[5])>>) >>
        ELSE <<>>)

\* The dispatchable set_collateral_params, lib.rs 354-393.  The record of the call
\* notes whether it repeats the arguments of a successful set_collateral_params that
\* immediately precedes it.
set_collateral_params(origin, currency_id, change) ==
    LET result == IF ensure_update_origin(origin) # "Ok" THEN "BadOrigin"
                  ELSE IF currency_id \notin AllowedCollaterals THEN "InvalidCollateralType"
                  ELSE "Ok"
    IN  /\ collateral_params' =
              IF result = "Ok"
              THEN [collateral_params EXCEPT ![currency_id] =
                       patched_collateral_params(currency_id, change)]
              ELSE collateral_params
        /\ last' = [op |-> "set_collateral_params", origin |-> origin,
                    currency_id |-> currency_id, change |-> change, result |-> result,
                    repeats |-> /\ last.op = "set_collateral_params"
                                /\ last.result = "Ok" /\ result = "Ok"
                                /\ last.currency_id = currency_id
                                /\ last.change = change,
                    calls |-> <<>>,
                    events |-> IF result = "Ok"
                               THEN collateral_params_events(currency_id, change)
                               ELSE <<>>]
        /\ UNCHANGED <<is_shutdown, debit_exchange_rate, global_stability_fee, debits,
                       collaterals, free, treasury_collateral, oracle, max_slippage, default_rate, dex_collateral, collateral_in_auction,
                       offchain_position, offchain_lock, offchain_lock_near, stalled,
                       scan_log,
                       blocks, liquidated>>

----------------------------------------------------------------------------
(* Stability fee accrual at the end of a block.                            *)

\* lib.rs 400-416: the loop over T::CollateralCurrencyIds from index i on. rates is the
\* DebitExchangeRate map so far, calls the treasury calls so far; surplus_ok[c] is the
\* treasury's answer to on_system_surplus for collateral c.
\* accrual that gives up the remaining collaterals when the treasury rejects a surplus
RECURSIVE accrue_from_until_rejected(_, _, _, _)
accrue_from_until_rejected(i, rates, calls, surplus_ok) ==
    IF i > Len(CollateralCurrencyIds) THEN [rates |-> rates, calls |-> calls]
    ELSE LET currency_id == CollateralCurrencyIds[i]
             rate == UnwrapOr(rates[currency_id], default_rate)
             stability_fee_rate == get_stability_fee(currency_id)
             total == total_debits(currency_id)
             debit_exchange_rate_increment == saturating_mul(rate, stability_fee_rate)
             total_debit_value == saturating_mul_int(rate, total)
             issued_stable_coin_balance ==
                 saturating_mul_int(debit_exchange_rate_increment, total_debit_value)
             new_debit_exchange_rate == saturating_add(rate, debit_exchange_rate_increment)
             called == Append(calls, Call("on_system_surplus", <<issued_stable_coin_balance>>))
         IN  IF stability_fee_rate # 0 /\ total # 0
             THEN IF surplus_ok[currency_id]
                  THEN accrue_from_until_rejected(i + 1,
                           [rates EXCEPT ![currency_id] = Some(new_debit_exchange_rate)],
                           called, surplus_ok)
                  ELSE [rates |-> rates, calls |-> called]
             ELSE accrue_from_until_rejected(i + 1, rates, calls, surplus_ok)

\* accrual that writes the new rate whatever the treasury answers
RECURSIVE accrue_from_unconditional(_, _, _, _)
accrue_from_unconditional(i, rates, calls, surplus_ok) ==
    IF i > Len(CollateralCurrencyIds) THEN [rates |-> rates, calls |-> calls]
    ELSE LET currency_id == CollateralCurrencyIds[i]
             rate == UnwrapOr(rates[currency_id], default_rate)
             stability_fee_rate == get_stability_fee(currency_id)
             total == total_debits(currency_id)
             debit_exchange_rate_increment == saturating_mul(rate, stability_fee_rate)
             total_debit_value == saturating_mul_int(rate, total)
             issued_stable_coin_balance ==
                 saturating_mul_int(debit_exchange_rate_increment, total_debit_value)
             new_debit_exchange_rate == saturating_add(rate, debit_exchange_rate_increment)
         IN  IF stability_fee_rate # 0 /\ total # 0
             THEN accrue_from_unconditional(i + 1,
                      [rates EXCEPT ![currency_id] = Some(new_debit_exchange_rate)],
                      Append(calls, Call("on_system_surplus", <<issued_stable_coin_balance>>)),
                      surplus_ok)
             ELSE accrue_from_unconditional(i + 1, rates, calls, surplus_ok)

RECURSIVE accrue_from(_, _, _, _)
accrue_from(i, rates, calls, surplus_ok) ==
    IF i > Len(CollateralCurrencyIds) THEN [rates |-> rates, calls |-> calls]
    ELSE LET currency_id == CollateralCurrencyIds[i]
             rate == UnwrapOr(rates[currency_id], default_rate)
             stability_fee_rate == get_stability_fee(currency_id)
             total == total_debits(currency_id)
             debit_exchange_rate_increment == saturating_mul(rate, stability_fee_rate)
             total_debit_value == saturating_mul_int(rate, total)
             issued_stable_coin_balance ==
                 saturating_mul_int(debit_exchange_rate_increment, total_debit_value)
             new_debit_exchange_rate == saturating_add(rate, debit_exchange_rate_increment)
         IN  IF stability_fee_rate # 0 /\ total # 0
             THEN accrue_from(i + 1,
                      IF surplus_ok[currency_id]
                      THEN [rates EXCEPT ![currency_id] = Some(new_debit_exchange_rate)]
                      ELSE rates,
                      Append(calls, Call("on_system_surplus", <<issued_stable_coin_balance>>)),
                      surplus_ok)
             ELSE accrue_from(i + 1, rates, calls, surplus_ok)

\* on_finalize that accrues without looking at the shutdown flag
on_finalize_unguarded(surplus_ok) ==
    LET out == accrue_from(1, debit_exchange_rate, <<>>, surplus_ok)
    IN  /\ debit_exchange_rate' = out.rates
        /\ blocks' = blocks + 1
        /\ last' = [op |-> "on_finalize", surplus_ok |-> surplus_ok, result |-> "Ok",
                    calls |-> out.calls, events |-> <<>>]
        /\ UNCHANGED <<is_shutdown, global_stability_fee, collateral_params, debits,
                       collaterals, free, treasury_collateral, oracle, max_slippage, default_rate, dex_collateral, collateral_in_auction,
                       offchain_position, offchain_lock, offchain_lock_near, stalled,
                       scan_log,
                       liquidated>>

\* The hook on_finalize, lib.rs 397-418.
on_finalize(surplus_ok) ==
    LET out == IF ~is_shutdown THEN accrue_from(1, debit_exchange_rate, <<>>, surplus_ok)
               ELSE [rates |-> debit_exchange_rate, calls |-> <<>>]
    IN  /\ debit_exchange_rate' = out.rates
        /\ blocks' = blocks + 1
        /\ last' = [op |-> "on_finalize", surplus_ok |-> surplus_ok, result |-> "Ok",
                    calls |-> out.calls, events |-> <<>>]
        /\ UNCHANGED <<is_shutdown, global_stability_fee, collateral_params, debits,
                       collaterals, free, treasury_collateral, oracle, max_slippage, default_rate, dex_collateral, collateral_in_auction,
                       offchain_position, offchain_lock, offchain_lock_near, stalled,
                       scan_log,
                       liquidated>>

\* The hook on_emergency_shutdown, lib.rs 767-771.
on_emergency_shutdown ==
    /\ is_shutdown' = TRUE
    /\ last' = [op |-> "on_emergency_shutdown", result |-> "Ok", calls |-> <<>>,
                events |-> <<>>]
    /\ UNCHANGED <<debit_exchange_rate, global_stability_fee, collateral_params, debits,
                   collaterals, free, treasury_collateral, oracle, max_slippage, default_rate, dex_collateral, collateral_in_auction,
                       offchain_position, offchain_lock, offchain_lock_near, stalled,
                       scan_log, blocks,
                   liquidated>>

----------------------------------------------------------------------------
(* Position adjustment through the ledger.                                 *)

\* loans::Module::adjust_position: the ledger applies the adjustment to the position,
\* moves the collateral between the owner and the ledger, and asks the risk manager:
\* check_debit_cap on the new total when debit is issued, check_position_valid on the
\* new position.  The adjustment is all or nothing.
loans_adjust_position(who, currency_id, collateral_adjustment, debit_adjustment) ==
    LET new_collateral == collaterals[<<currency_id, who>>] + collateral_adjustment
        new_debit == debits[<<currency_id, who>>] + debit_adjustment
    IN  IF new_collateral < 0 THEN "CollateralTooLow"
        ELSE IF new_debit < 0 THEN "DebitTooLow"
        ELSE IF free[<<currency_id, who>>] < collateral_adjustment THEN "BalanceTooLow"
        ELSE IF debit_adjustment > 0
                /\ check_debit_cap(currency_id, total_debits(currency_id) + debit_adjustment)
                   # "Ok"
             THEN "ExceedDebitValueHardCap"
        ELSE check_position_valid(currency_id, new_collateral, new_debit)

\* adjust_position, lib.rs 604-616.
adjust_position(who, currency_id, collateral_adjustment, debit_adjustment) ==
    LET result == IF currency_id \notin AllowedCollaterals THEN "InvalidCollateralType"
                  ELSE loans_adjust_position(who, currency_id, collateral_adjustment,
                                             debit_adjustment)
        key == <<currency_id, who>>
    IN  /\ IF result = "Ok"
           THEN /\ collaterals' = [collaterals EXCEPT ![key] = @ + collateral_adjustment]
                /\ debits' = [debits EXCEPT ![key] = @ + debit_adjustment]
                /\ free' = [free EXCEPT ![key] = @ - collateral_adjustment]
                /\ liquidated' = liquidated \ {key}
           ELSE UNCHANGED <<collaterals, debits, free, liquidated>>
        /\ last' = [op |-> "adjust_position", who |-> who, currency_id |-> currency_id,
                    collateral_adjustment |-> collateral_adjustment,
                    debit_adjustment |-> debit_adjustment, result |-> result,
                    calls |-> <<>>, events |-> <<>>]
        /\ UNCHANGED <<is_shutdown, debit_exchange_rate, global_stability_fee,
                       collateral_params, treasury_collateral, oracle, max_slippage, default_rate, dex_collateral, collateral_in_auction,
                       offchain_position, offchain_lock, offchain_lock_near, stalled,
                       scan_log, blocks>>

----------------------------------------------------------------------------
(* The price source.                                                       *)

\* The oracle publishes a new relative price (or withdraws it) for one direction.
feed_price(from, to, price) ==
    /\ oracle' = [oracle EXCEPT ![<<from, to>>] = price]
    /\ last' = [op |-> "feed_price", from |-> from, to |-> to, price |-> price,
                result |-> "Ok", calls |-> <<>>, events |-> <<>>]
    /\ UNCHANGED <<is_shutdown, debit_exchange_rate, global_stability_fee,
                   collateral_params, debits, collaterals, free, treasury_collateral,
                   max_slippage, default_rate, dex_collateral, collateral_in_auction,
                       offchain_position, offchain_lock, offchain_lock_near, stalled,
                       scan_log, blocks, liquidated>>

----------------------------------------------------------------------------
(* Validation of the unsigned calls.                                       *)

\* T::UnsignedPriority
UnsignedPriority == 1

\* ValidTransaction::with_tag_prefix("CDPEngineOffchainWorker")...build()
ValidTransaction(provides) ==
    [validity |-> "Valid", priority |-> UnsignedPriority, provides |-> provides,
     longevity |-> 64, propagate |-> TRUE]

\* validation that admits a settle of a position in debt whether shut down or not
validate_unsigned_settle_anytime(call) ==
    IF call.fn = "liquidate"
    THEN IF ~is_cdp_unsafe(call.currency_id, call.who) \/ is_shutdown
         THEN [validity |-> "Stale"]
         ELSE ValidTransaction(<<blocks, call.currency_id, call.who>>)
    ELSE IF call.fn = "settle"
    THEN IF debits[<<call.currency_id, call.who>>] = 0
         THEN [validity |-> "Stale"]
         ELSE ValidTransaction(<<call.currency_id, call.who>>)
    ELSE [validity |-> "Call"]

\* validate_unsigned, lib.rs 777-806; call is [fn, currency_id, who]
validate_unsigned(call) ==
    IF call.fn = "liquidate"
    THEN IF ~is_cdp_unsafe(call.currency_id, call.who) \/ is_shutdown
         THEN [validity |-> "Stale"]
         ELSE ValidTransaction(<<blocks, call.currency_id, call.who>>)
    ELSE IF call.fn = "settle"
    THEN IF debits[<<call.currency_id, call.who>>] = 0 \/ ~is_shutdown
         THEN [validity |-> "Stale"]
         ELSE ValidTransaction(<<call.currency_id, call.who>>)
    ELSE [validity |-> "Call"]

----------------------------------------------------------------------------
(* The offchain scanner.                                                   *)

\* RandomNumberGenerator::pick_u32(max): a number from 0 to max drawn from the seed
pick_u32(max, seed) == seed % (max + 1)

\* a rotation that stays on the recorded position
next_position_stuck(val, seed) ==
    LET len == Len(CollateralCurrencyIds)
        last_index == IF len > 0 THEN len - 1 ELSE 0
    IN  IF IsSome(val) THEN Min(Unwrap(val), last_index) ELSE pick_u32(last_index, seed)

\* lib.rs 467-479, the closure given to acquire_offchain_lock: the position of this run
\* from the one recorded with the lock (val), or from the random seed when none is
next_position(val, seed) ==
    LET len == Len(CollateralCurrencyIds)
        last_index == IF len > 0 THEN len - 1 ELSE 0
    IN  IF IsSome(val)
        THEN IF Unwrap(val) < last_index THEN Unwrap(val) + 1 ELSE 0
        ELSE pick_u32(last_index, seed)

\* loans::Debits::iter_prefix(currency_id): the accounts of the ledger, in storage order
DebitsPrefix == <<ALICE, BOB>>

\* a scanner that proposes the liquidation of every account in debt
proposal_indebted(currency_id, who) ==
    IF debits[<<currency_id, who>>] # 0
    THEN Some([fn |-> IF is_shutdown THEN "settle" ELSE "liquidate",
               currency_id |-> currency_id, who |-> who])
    ELSE None

\* lib.rs 485-487, 503-505: the call the scanner proposes for an account, if any
proposal(currency_id, who) ==
    IF ~is_shutdown
    THEN IF is_cdp_unsafe(currency_id, who)
         THEN Some([fn |-> "liquidate", currency_id |-> currency_id, who |-> who])
         ELSE None
    ELSE IF debits[<<currency_id, who>>] # 0
         THEN Some([fn |-> "settle", currency_id |-> currency_id, who |-> who])
         ELSE None

\* an iteration that a SubmitTransaction error ends
RECURSIVE scan_from_until_error(_, _, _, _)
scan_from_until_error(i, currency_id, progress, submit_ok) ==
    IF i > progress THEN <<>>
    ELSE LET who == DebitsPrefix[i]
             p == proposal(currency_id, who)
         IN  IF IsSome(p) /\ ~submit_ok[who]
             THEN << [call |-> Unwrap(p), ok |-> FALSE] >>
             ELSE (IF IsSome(p) THEN << [call |-> Unwrap(p), ok |-> TRUE] >> ELSE <<>>)
                  \o scan_from_until_error(i + 1, currency_id, progress, submit_ok)

\* lib.rs 484-528: the iteration over the first `progress` accounts; every proposal is
\* handed to submit_unsigned_transaction, whose failure is logged and the iteration goes
\* on.  The result is the sequence of [call, ok] in the order of the submissions.
RECURSIVE scan_from(_, _, _, _)
scan_from(i, currency_id, progress, submit_ok) ==
    IF i > progress THEN <<>>
    ELSE LET who == DebitsPrefix[i]
             p == proposal(currency_id, who)
         IN  (IF IsSome(p) THEN << [call |-> Unwrap(p), ok |-> submit_ok[who]] >>
              ELSE <<>>)
             \o scan_from(i + 1, currency_id, progress, submit_ok)

\* bound: the runs of the worker that can be suspended at one time
MaxStalledRuns == 2

\* utilities::OffchainLock::extend_offchain_lock_if_needed, called in every iteration
\* (lib.rs 504, 525): whether the lock is near its expiry after the call.  A lock that
\* is held and near its expiry gets a fresh expiry; the lock is found by its key alone
\* (lib.rs 462), so the call extends it whichever run acquired it.
extend_offchain_lock_if_needed(held, near) == IF held /\ near THEN FALSE ELSE near

\* the lock after n iterations, each of which ends with the extension
RECURSIVE extended(_, _, _)
extended(n, held, near) ==
    IF n = 0 THEN near
    ELSE extended(n - 1, held, extend_offchain_lock_if_needed(held, near))

\* lib.rs 530, the closure given to release_offchain_lock: the position recorded with
\* the lock is the position of this run
release_condition(current_position, position) == current_position = position

\* utilities::OffchainLock::release_offchain_lock as called at lib.rs 530: whether the
\* lock is held after the call.  The expiry is reset to now when the closure accepts the
\* recorded position, and the lock is left as it is otherwise.
release_offchain_lock(held, current_position, position) ==
    IF release_condition(current_position, position) THEN FALSE ELSE held

\* what is left to a suspended run after its first `progress` accounts: for each
\* account that follows, the call the run proposes for it, if any (lib.rs 487, 508).
\* The run reads the state of the block it was started for, so what it will find is
\* settled at its start.
pending_from(currency_id, progress) ==
    [k \in 1 .. Len(DebitsPrefix) - progress |->
        proposal(currency_id, DebitsPrefix[progress + k])]

\* lib.rs 486-505 and 507-526 for the first n of the pending accounts: every proposal
\* is handed to submit_unsigned_transaction, whose failure is logged and the iteration
\* goes on
RECURSIVE scan_pending(_, _, _)
scan_pending(pending, n, submit_ok) ==
    IF n = 0 THEN <<>>
    ELSE scan_pending(pending, n - 1, submit_ok)
         \o (IF IsSome(pending[n])
             THEN << [call |-> Unwrap(pending[n]), ok |-> submit_ok[Unwrap(pending[n]).who]] >>
             ELSE <<>>)

\* what a run started for the collateral currency_id reads of the state of its block:
\* whether the system is shut down (lib.rs 485), the accounts that are unsafe (lib.rs
\* 487) and the accounts in debt (lib.rs 508)
observed_by(currency_id) ==
    [is_shutdown |-> is_shutdown,
     unsafe |-> { a \in AccountIds : is_cdp_unsafe(currency_id, a) },
     indebted |-> { a \in AccountIds : debits[<<currency_id, a>>] # 0 }]

\* the suspended runs, none of them holding the lock any more
superseded(runs) == [k \in 1 .. Len(runs) |-> [runs[k] EXCEPT !.holds = FALSE]]

\* a sequence without its i-th element
without(runs, i) == SubSeq(runs, 1, i - 1) \o SubSeq(runs, i + 1, Len(runs))

\* The offchain worker, lib.rs 422-432 and 450-538, from its start.  is_validator is
\* the answer of sp_io::offchain::is_validator, seed picks the position of a cold start,
\* submit_ok the answer of the transaction pool for each account; progress is the number
\* of accounts the run iterates before it is suspended: all of them for a run that goes
\* through to the release of the lock (lib.rs 530) in one go, fewer for a run that is
\* suspended in its iteration and joins the stalled runs, keeping the lock.
offchain_worker(is_validator, seed, submit_ok, progress) ==
    LET len == Len(CollateralCurrencyIds)
        result == IF len = 0 THEN "Ok"
                  ELSE IF ~is_validator THEN "NotValidator"
                  ELSE IF offchain_lock THEN "OffchainLock"
                  ELSE IF progress < Len(DebitsPrefix) THEN "Stalled"
                  ELSE "Ok"
        acquired == len # 0 /\ is_validator /\ ~offchain_lock
        position == next_position(offchain_position, seed)
        currency_id == CollateralCurrencyIds[position + 1]
        submissions == IF acquired THEN scan_from(1, currency_id, progress, submit_ok)
                       ELSE <<>>
        completed == acquired /\ progress = Len(DebitsPrefix)
        near == IF acquired THEN extended(progress, TRUE, FALSE) ELSE offchain_lock_near
        held == IF completed THEN release_offchain_lock(TRUE, position, position)
                ELSE IF acquired THEN TRUE
                ELSE offchain_lock
    IN  /\ offchain_position' = IF acquired THEN Some(position) ELSE offchain_position
        /\ offchain_lock' = held
        /\ offchain_lock_near' = (held /\ near)
        /\ stalled' = IF acquired /\ ~completed
                      THEN Append(stalled,
                                  [position |-> position,
                                   observed |-> observed_by(currency_id),
                                   done |-> submissions,
                                   pending |-> pending_from(currency_id, progress),
                                   holds |-> TRUE])
                      ELSE stalled
        /\ scan_log' = IF acquired
                       THEN LET log == Append(scan_log, position)
                            IN  IF Len(log) > len THEN Tail(log) ELSE log
                       ELSE scan_log
        /\ last' = [op |-> "offchain_worker", result |-> result,
                    position |-> IF acquired THEN Some(position) ELSE None,
                    scanned |-> IF acquired THEN <<currency_id>> ELSE <<>>,
                    submissions |-> submissions,
                    calls |-> <<>>, events |-> <<>>]
        /\ UNCHANGED <<is_shutdown, debit_exchange_rate, global_stability_fee,
                       collateral_params, debits, collaterals, free, treasury_collateral,
                       oracle, max_slippage, default_rate, dex_collateral,
                       collateral_in_auction, blocks, liquidated>>

\* The offchain worker, lib.rs 484-538, going on after a suspension.  The i-th of the
\* stalled runs iterates the next n of its pending accounts with the answers submit_ok
\* of the transaction pool, extending the lock in each
\* iteration (lib.rs 504, 525); when none is left it calls release_offchain_lock with
\* its own position (lib.rs 530) and returns Ok, otherwise it is suspended again.  The
\* run does not look at the lock before it goes on: it may have expired and have been
\* acquired by a later run meanwhile.
offchain_worker_resume(i, n, submit_ok) ==
    /\ i \in 1 .. Len(stalled)
    /\ n \in 1 .. Len(stalled[i].pending)
    /\ IsSome(offchain_position)
    /\ LET run == stalled[i]
           completed == n = Len(run.pending)
           near == extended(n, offchain_lock, offchain_lock_near)
           held == IF completed
                   THEN release_offchain_lock(offchain_lock, Unwrap(offchain_position),
                                              run.position)
                   ELSE offchain_lock
           others == without(stalled, i)
           submissions == run.done \o scan_pending(run.pending, n, submit_ok)
       IN  /\ offchain_lock' = held
           /\ offchain_lock_near' = (held /\ near)
           /\ stalled' = IF completed
                         THEN IF held THEN others ELSE superseded(others)
                         ELSE [stalled EXCEPT
                                  ![i].done = submissions,
                                  ![i].pending = SubSeq(run.pending, n + 1, Len(run.pending))]
           /\ last' = [op |-> "offchain_worker_resume",
                       result |-> IF completed THEN "Ok" ELSE "Stalled",
                       position |-> Some(run.position),
                       holds |-> run.holds,
                       observed |-> run.observed,
                       scanned |-> << CollateralCurrencyIds[run.position + 1] >>,
                       submissions |-> submissions,
                       calls |-> <<>>, events |-> <<>>]
    /\ UNCHANGED <<is_shutdown, debit_exchange_rate, global_stability_fee,
                   collateral_params, debits, collaterals, free, treasury_collateral,
                   oracle, max_slippage, default_rate, dex_collateral,
                   collateral_in_auction, offchain_position, scan_log, blocks,
                   liquidated>>

\* Time passes: the lock that is held comes near its expiry.
offchain_lock_age ==
    /\ offchain_lock /\ ~offchain_lock_near
    /\ offchain_lock_near' = TRUE
    /\ last' = [op |-> "offchain_lock_age", result |-> "Ok", calls |-> <<>>,
                events |-> <<>>]
    /\ UNCHANGED <<is_shutdown, debit_exchange_rate, global_stability_fee,
                   collateral_params, debits, collaterals, free, treasury_collateral,
                   oracle, max_slippage, default_rate, dex_collateral,
                   collateral_in_auction, offchain_position, offchain_lock, stalled,
                   scan_log, blocks, liquidated>>

\* Time passes: the lock that no iteration extended reaches its expiry; the run that
\* held it is superseded.
offchain_lock_expire ==
    /\ offchain_lock /\ offchain_lock_near
    /\ offchain_lock' = FALSE
    /\ offchain_lock_near' = FALSE
    /\ stalled' = superseded(stalled)
    /\ last' = [op |-> "offchain_lock_expire", result |-> "Ok", calls |-> <<>>,
                events |-> <<>>]
    /\ UNCHANGED <<is_shutdown, debit_exchange_rate, global_stability_fee,
                   collateral_params, debits, collaterals, free, treasury_collateral,
                   oracle, max_slippage, default_rate, dex_collateral,
                   collateral_in_auction, offchain_position, scan_log,
                   blocks, liquidated>>

----------------------------------------------------------------------------
(* Genesis.                                                                *)

\* free balance of a funded owner at genesis
Endowment == 100
\* maximum_total_debit_value of every collateral in the genesis config
GenesisDebitCap == 400

\* RiskManagementParams::default()
DefaultParams ==
    [maximum_total_debit_value |-> 0, stability_fee |-> None, liquidation_ratio |-> None,
     liquidation_penalty |-> None, required_collateral_ratio |-> None]

\* add_extra_genesis, lib.rs 195-216: collaterals_params gives every collateral a hard cap
GenesisParams ==
    [c \in CurrencyIds |->
        IF c \in AllowedCollaterals
        THEN [DefaultParams EXCEPT !.maximum_total_debit_value = GenesisDebitCap]
        ELSE DefaultParams]

NoPrices == [k \in (CurrencyIds \cup {AUSD}) \X (CurrencyIds \cup {AUSD}) |-> None]

\* The state after construction; funded is the set of <<currency_id, who>> whose owner
\* holds free collateral.
Genesis(funded) ==
    /\ is_shutdown = FALSE
    /\ debit_exchange_rate = [c \in CurrencyIds |-> None]
    /\ global_stability_fee = 0
    /\ collateral_params = GenesisParams
    /\ debits = [k \in CurrencyIds \X AccountIds |-> 0]
    /\ collaterals = [k \in CurrencyIds \X AccountIds |-> 0]
    /\ free = [k \in CurrencyIds \X AccountIds |-> IF k \in funded THEN Endowment ELSE 0]
    /\ treasury_collateral = [c \in CurrencyIds |-> 0]
    /\ dex_collateral = [c \in CurrencyIds |-> 0]
    /\ collateral_in_auction = [c \in CurrencyIds |-> 0]
    /\ offchain_position = None
    /\ offchain_lock = FALSE
    /\ offchain_lock_near = FALSE
    /\ stalled = <<>>
    /\ scan_log = <<>>
    /\ blocks = 0
    /\ liquidated = {}
    /\ last = [op |-> "genesis", result |-> "Ok", calls |-> <<>>, events |-> <<>>]

----------------------------------------------------------------------------
(* Spec: liquidation.  Two owners open positions in BTC, the price moves,  *)
(* liquidate is called with every answer of the DEX and the treasury.      *)

\* DEX::get_supply_amount answers: nothing sellable, part of the collateral, all of it,
\* more than the collateral
SupplyQuotes == {0, 60, 100, 150}
\* DEX::get_exchange_slippage answers: undefined, within the limit 0.1, above it
SlippageQuotes == {None, Some(1), Some(2)}
\* prices of BTC in the stablecoin: none, 1.0, 3.0
FeedPrices == {None, Some(10), Some(30)}

Init ==
    /\ Genesis({<<BTC, ALICE>>, <<BTC, BOB>>})
    /\ oracle = NoPrices
    /\ max_slippage \in {0, 1}
    /\ default_rate = FixedDiv

\* The answers of the ledger, the DEX and the treasury are drawn only for the calls
\* that reach them (origin None, not shut down, position unsafe); the calls rejected
\* before that do not read them.
Next ==
    \/ \E origin \in {"None", "Signed"}, currency_id \in {BTC, ACA}, who \in AccountIds :
          /\ origin # "None" \/ is_shutdown \/ ~is_cdp_unsafe(currency_id, who)
          /\ liquidate(origin, currency_id, who, TRUE, 0, None, TRUE)
    \/ \E currency_id \in {BTC, ACA}, who \in AccountIds,
          confiscate_ok \in BOOLEAN, supply \in SupplyQuotes, slip \in SlippageQuotes,
          swap_ok \in BOOLEAN :
          /\ ~is_shutdown /\ is_cdp_unsafe(currency_id, who)
          /\ liquidate("None", currency_id, who, confiscate_ok, supply, slip, swap_ok)
    \/ \E who \in AccountIds, currency_id \in {BTC, ACA} :
          adjust_position(who, currency_id, 100, 200)
    \/ \E who \in AccountIds : adjust_position(who, BTC, 0, -200)
    \/ \E price \in FeedPrices : feed_price(BTC, GetStableCurrencyId, price)
    \/ on_emergency_shutdown

Spec == Init /\ [][Next]_vars

----------------------------------------------------------------------------
(* Properties of liquidation, checked under Spec.                          *)

\* the calls of the last operation to the collaborator function fn
CallsTo(fn) == SelectSeq(last.calls, LAMBDA x : x.fn = fn)
LiquidatedOk == last.op = "liquidate" /\ last.result = "Ok"
\* the fields of the LiquidateUnsafeCDP event of the last operation
EventCollateral == last.events[1].args[3]
EventBadDebt == last.events[1].args[4]
EventStrategy == last.events[1].args[5]

\* C1: a liquidate dispatched with origin None fails with AlreadyShutdown whenever the
\* system is shut down, else with MustBeUnsafe whenever the position is not unsafe; it
\* succeeds only when not shut down and the position is unsafe; on either failure the
\* ledger, the owners' balances, the treasury, the risk parameters and the debit exchange
\* rates are unchanged and no event is emitted.
C1_LiquidateRejections ==
    [][ (last'.op = "liquidate" /\ last'.origin = "None") =>
        LET unsafe == is_cdp_unsafe(last'.currency_id, last'.who)
        IN  /\ is_shutdown => last'.result = "AlreadyShutdown"
            /\ (~is_shutdown /\ ~unsafe) => last'.result = "MustBeUnsafe"
            /\ last'.result = "Ok" => (~is_shutdown /\ unsafe)
            /\ last'.result \in {"AlreadyShutdown", "MustBeUnsafe"} =>
                  /\ UNCHANGED <<debits, collaterals, free, treasury_collateral,
                                 collateral_params, global_stability_fee,
                                 debit_exchange_rate, is_shutdown>>
                  /\ last'.events = <<>>
                  /\ last'.calls = <<>> ]_vars

\* C1 witness: a liquidate of a safe position was rejected while another liquidation
\* had already succeeded
C1_Witness ==
    /\ last.op = "liquidate" /\ last.origin = "None" /\ last.result = "MustBeUnsafe"
    /\ debits[<<last.currency_id, last.who>>] > 0

\* C2: a position that was liquidated and not adjusted since holds no collateral and no
\* debit, validate_unsigned answers Stale for a liquidate of it, and every further
\* liquidate of it fails (MustBeUnsafe, or AlreadyShutdown once the system is shut down).
C2_SecondLiquidateFails ==
    [][ /\ \A k \in liquidated' :
              /\ debits'[k] = 0 /\ collaterals'[k] = 0
              /\ validate_unsigned([fn |-> "liquidate", currency_id |-> k[1],
                                    who |-> k[2]])'.validity = "Stale"
        /\ (last'.op = "liquidate" /\ last'.origin = "None"
            /\ <<last'.currency_id, last'.who>> \in liquidated) =>
              last'.result = IF is_shutdown THEN "AlreadyShutdown" ELSE "MustBeUnsafe" ]_vars

\* C2 witness: a second liquidate of a liquidated position was dispatched, not shut down,
\* with a price on the oracle
C2_Witness ==
    /\ last.op = "liquidate" /\ last.origin = "None" /\ last.result = "MustBeUnsafe"
    /\ <<last.currency_id, last.who>> \in liquidated
    /\ IsSome(oracle[<<last.currency_id, GetStableCurrencyId>>])

\* C3: the strategy of a liquidation is Exchange exactly when supply > 0, the collateral
\* covers the supply, MaxSlippageSwapWithDEX > 0 and the slippage is defined and within
\* MaxSlippageSwapWithDEX; in every other case it is Auction.
C3_StrategyDecision ==
    LiquidatedOk =>
        LET q == Unwrap(last.quote)
        IN  /\ EventStrategy \in {"Exchange", "Auction"}
            /\ EventStrategy = "Exchange" <=>
                  /\ q.supply > 0
                  /\ EventCollateral >= q.supply
                  /\ max_slippage > 0
                  /\ IsSome(q.slip)
                  /\ q.slip # None => Unwrap(q.slip) <= max_slippage

\* C3 witness: a liquidation by Exchange whose supply is the whole collateral
C3_Witness ==
    /\ LiquidatedOk /\ EventStrategy = "Exchange"
    /\ Unwrap(last.quote).supply = EventCollateral

\* the calls to the collaborator function fn among calls
CallsIn(calls, fn) == SelectSeq(calls, LAMBDA x : x.fn = fn)

\* bad_debt + liquidation_penalty * bad_debt, saturating, for the position k = <<c, a>>
\* as it stands in the current state
BadDebtOf(k) == Saturate((get_debit_exchange_rate(k[1]) * debits[k]) \div FixedDiv)
TargetStableOf(k) ==
    Saturate(BadDebtOf(k) + Saturate((get_liquidation_penalty(k[1]) * BadDebtOf(k)) \div FixedDiv))

\* C4: a liquidation by Exchange calls swap_collateral_to_stable(C, supply, target_stable)
\* exactly once and creates no auction; if the swap succeeds and collat - supply is not
\* zero it transfers exactly collat - supply to the owner (and nothing otherwise); if the
\* swap fails there is no refund and no auction, the treasury keeps the whole confiscated
\* collateral, and the call still succeeds with LiquidateUnsafeCDP(C, A, collat,
\* bad_debt, Exchange).
C4_ExchangeExecution ==
    [][ (last'.op = "liquidate" /\ last'.result = "Ok"
         /\ last'.events[1].args[5] = "Exchange") =>
        LET c == last'.currency_id
            a == last'.who
            k == <<c, a>>
            collat == collaterals[k]
            supply == Unwrap(last'.quote).supply
            transfers == CallsIn(last'.calls, "transfer_collateral_to")
        IN  /\ CallsIn(last'.calls, "swap_collateral_to_stable")
                  = << Call("swap_collateral_to_stable", <<c, supply, TargetStableOf(k)>>) >>
            /\ CallsIn(last'.calls, "create_collateral_auctions") = <<>>
            /\ last'.events = << Event("LiquidateUnsafeCDP",
                                       <<c, a, collat, BadDebtOf(k), "Exchange">>) >>
            /\ IF last'.swap = Some(TRUE) /\ collat - supply # 0
               THEN /\ transfers = << Call("transfer_collateral_to",
                                           <<c, a, collat - supply>>) >>
                    /\ free' = [free EXCEPT ![k] = @ + (collat - supply)]
                    /\ treasury_collateral' = treasury_collateral
               ELSE /\ transfers = <<>>
                    /\ free' = free
                    /\ treasury_collateral' =
                          [treasury_collateral EXCEPT ![c] =
                              IF last'.swap = Some(TRUE) THEN @ ELSE @ + collat] ]_vars

\* C4 witness: an Exchange liquidation whose swap succeeded and refunded 40 of 100
C4_Witness ==
    /\ LiquidatedOk /\ EventStrategy = "Exchange" /\ last.swap = Some(TRUE)
    /\ CallsTo("transfer_collateral_to")
          = << Call("transfer_collateral_to", <<BTC, last.who, 40>>) >>

\* C5: a liquidation by Auction calls create_collateral_auctions(C, collat,
\* target_stable, A) exactly once, with the whole collateral of the position and
\* target_stable = bad_debt + liquidation_penalty(C) * bad_debt (saturating); it makes no
\* swap and no refund and emits LiquidateUnsafeCDP(C, A, collat, bad_debt, Auction).
C5_AuctionExecution ==
    [][ (last'.op = "liquidate" /\ last'.result = "Ok"
         /\ last'.events[1].args[5] = "Auction") =>
        LET c == last'.currency_id
            a == last'.who
            k == <<c, a>>
            collat == collaterals[k]
        IN  /\ CallsIn(last'.calls, "create_collateral_auctions")
                  = << Call("create_collateral_auctions",
                            <<c, collat, TargetStableOf(k), a>>) >>
            /\ CallsIn(last'.calls, "swap_collateral_to_stable") = <<>>
            /\ CallsIn(last'.calls, "transfer_collateral_to") = <<>>
            /\ free' = free
            /\ last'.events = << Event("LiquidateUnsafeCDP",
                                       <<c, a, collat, BadDebtOf(k), "Auction">>) >> ]_vars

\* C5 witness: collateral 100, debit 200, rate 1.0, penalty 0.1: the auction is created
\* for (BTC, 100, 220, owner)
C5_Witness ==
    /\ LiquidatedOk /\ EventStrategy = "Auction"
    /\ last.calls[Len(last.calls)]
          = Call("create_collateral_auctions", <<BTC, 100, 220, last.who>>)
    /\ last.events = << Event("LiquidateUnsafeCDP", <<BTC, last.who, 100, 200, "Auction">>) >>

\* the validity validate_unsigned gives the unsigned call fn(currency_id, who)
Validity(fn, currency_id, who) ==
    validate_unsigned([fn |-> fn, currency_id |-> currency_id, who |-> who]).validity

\* C15: validate_unsigned admits liquidate(C, A) exactly when the position is unsafe and
\* the system is not shut down, admits settle(C, A) exactly when the position has debit
\* and the system is shut down, answers Stale for the liquidate and settle calls it does
\* not admit and Call for every other call; so never are both liquidate(C, A) and
\* settle(C, A) admitted.
C15_ValidateUnsigned ==
    /\ \A c \in CurrencyIds, a \in AccountIds :
          /\ Validity("liquidate", c, a) = "Valid" <=> (is_cdp_unsafe(c, a) /\ ~is_shutdown)
          /\ Validity("liquidate", c, a) \in {"Valid", "Stale"}
          /\ Validity("settle", c, a) = "Valid" <=> (debits[<<c, a>>] > 0 /\ is_shutdown)
          /\ Validity("settle", c, a) \in {"Valid", "Stale"}
          /\ ~(Validity("liquidate", c, a) = "Valid" /\ Validity("settle", c, a) = "Valid")
          /\ \A fn \in {"set_global_params", "set_collateral_params"} :
                Validity(fn, c, a) = "Call"

\* C15 witness: ALICE's position is unsafe and the system not shut down: liquidate of
\* it is admitted and settle of it is Stale although it has debit; BOB has no debit and
\* neither call is admitted for BOB
C15_Witness ==
    /\ ~is_shutdown
    /\ is_cdp_unsafe(BTC, ALICE) /\ Validity("liquidate", BTC, ALICE) = "Valid"
    /\ debits[<<BTC, ALICE>>] > 0 /\ Validity("settle", BTC, ALICE) = "Stale"
    /\ debits[<<BTC, BOB>>] = 0
    /\ Validity("liquidate", BTC, BOB) = "Stale" /\ Validity("settle", BTC, BOB) = "Stale"

\* C24: liquidate never aborts.  No liquidate ends in the branch of
\* expect("never failed"); whenever the strategy is Exchange and the swap succeeds, the
\* refund collat - supply does not underflow and the treasury, after the confiscation
\* and the swap, holds at least that much of the collateral, so the transfer of
\* collat - supply to the owner succeeds.
C24_LiquidateNeverAborts ==
    [][ last'.op = "liquidate" =>
        /\ last'.result # "Panic"
        /\ last'.swap = Some(TRUE) =>
              LET c == last'.currency_id
                  k == <<c, last'.who>>
                  collat == collaterals[k]
                  supply == Unwrap(last'.quote).supply
              IN  /\ last'.result = "Ok"
                  /\ collat - supply >= 0
                  /\ treasury_collateral[c] + collat - supply >= collat - supply
                  /\ treasury_collateral'[c] = treasury_collateral[c]
                  /\ free'[k] = free[k] + (collat - supply)
                  /\ collat - supply # 0 =>
                        CallsIn(last'.calls, "transfer_collateral_to")
                            = << Call("transfer_collateral_to", <<c, last'.who, collat - supply>>) >> ]_vars

\* C24 witness: the tightest case: the treasury held nothing, took the 100 of the
\* position, swapped 60 of them and refunded the remaining 40, which emptied it
C24_Witness ==
    /\ last.op = "liquidate" /\ last.result = "Ok" /\ last.swap = Some(TRUE)
    /\ Unwrap(last.quote).supply = 60
    /\ free[<<last.currency_id, last.who>>] = 40
    /\ treasury_collateral[last.currency_id] = 0
    /\ dex_collateral[last.currency_id] = 60

----------------------------------------------------------------------------
(* SpecRisk: the risk predicates as functions of the state.  The position  *)
(* of ALICE in BTC, the price, the ratios of the collateral and the debit  *)
(* exchange rate are drawn from bounded sets; the actions evaluate the     *)
(* predicates and record the answer.                                       *)

RiskCollaterals == {0, 50, 100, 300, 4000}
RiskDebits == {0, 1, 50, 100, 200}
\* none, 1.0, 2.0, 3.0
RiskPrices == {None, Some(10), Some(20), Some(30)}
\* not set, 2.0
RiskLiquidationRatios == {None, Some(20)}
\* not set, 3.0
RiskRequiredRatios == {None, Some(30)}
\* never accrued, accrued to 1.1
RiskExchangeRates == {None, Some(11)}
\* T::DefaultDebitExchangeRate: 0.5, 1.0
RiskDefaultRates == {5, 10}

InitRisk ==
    /\ is_shutdown = FALSE
    /\ global_stability_fee = 0
    /\ \E rate \in RiskExchangeRates :
          debit_exchange_rate = [c \in CurrencyIds |-> IF c = BTC THEN rate ELSE None]
    /\ \E lr \in RiskLiquidationRatios, rr \in RiskRequiredRatios :
          collateral_params =
              [GenesisParams EXCEPT ![BTC] = [@ EXCEPT !.liquidation_ratio = lr,
                                                       !.required_collateral_ratio = rr]]
    /\ \E d \in RiskDebits :
          debits = [k \in CurrencyIds \X AccountIds |-> IF k = <<BTC, ALICE>> THEN d ELSE 0]
    /\ \E c \in RiskCollaterals :
          collaterals = [k \in CurrencyIds \X AccountIds |->
                            IF k = <<BTC, ALICE>> THEN c ELSE 0]
    /\ free = [k \in CurrencyIds \X AccountIds |-> 0]
    /\ treasury_collateral = [c \in CurrencyIds |-> 0]
    /\ dex_collateral = [c \in CurrencyIds |-> 0]
    /\ collateral_in_auction = [c \in CurrencyIds |-> 0]
    /\ \E price \in RiskPrices : oracle = [NoPrices EXCEPT ![<<BTC, AUSD>>] = price]
    /\ max_slippage = 1
    /\ default_rate \in RiskDefaultRates
    /\ offchain_position = None
    /\ offchain_lock = FALSE
    /\ offchain_lock_near = FALSE
    /\ stalled = <<>>
    /\ scan_log = <<>>
    /\ blocks = 0
    /\ liquidated = {}
    /\ last = [op |-> "genesis", result |-> "Ok", calls |-> <<>>, events |-> <<>>]

\* a caller evaluates is_cdp_unsafe(currency_id, who)
ask_is_cdp_unsafe(currency_id, who) ==
    /\ last' = [op |-> "is_cdp_unsafe", currency_id |-> currency_id, who |-> who,
                result |-> is_cdp_unsafe(currency_id, who), calls |-> <<>>,
                events |-> <<>>]
    /\ UNCHANGED <<is_shutdown, debit_exchange_rate, global_stability_fee,
                   collateral_params, debits, collaterals, free, treasury_collateral,
                   oracle, max_slippage, default_rate, dex_collateral, collateral_in_auction,
                       offchain_position, offchain_lock, offchain_lock_near, stalled,
                       scan_log, blocks, liquidated>>

\* the ledger evaluates check_position_valid(currency_id, collateral_balance, debit_balance)
ask_check_position_valid(currency_id, collateral_balance, debit_balance) ==
    /\ last' = [op |-> "check_position_valid", currency_id |-> currency_id,
                collateral_balance |-> collateral_balance,
                debit_balance |-> debit_balance,
                result |-> check_position_valid(currency_id, collateral_balance,
                                                debit_balance),
                calls |-> <<>>, events |-> <<>>]
    /\ UNCHANGED <<is_shutdown, debit_exchange_rate, global_stability_fee,
                   collateral_params, debits, collaterals, free, treasury_collateral,
                   oracle, max_slippage, default_rate, dex_collateral, collateral_in_auction,
                       offchain_position, offchain_lock, offchain_lock_near, stalled,
                       scan_log, blocks, liquidated>>

NextRisk ==
    \/ \E who \in AccountIds : ask_is_cdp_unsafe(BTC, who)
    \/ \E collateral_balance \in RiskCollaterals, debit_balance \in RiskDebits :
          ask_check_position_valid(BTC, collateral_balance, debit_balance)

SpecRisk == InitRisk /\ [][NextRisk]_vars

\* C6: is_cdp_unsafe(C, A) is true exactly when the debit of the position is not zero,
\* the oracle has a price of C in the stablecoin and the collateral ratio (as
\* calculate_collateral_ratio gives it) is strictly below liquidation_ratio(C); so it is
\* false with zero debit, false without a price, false exactly at the liquidation ratio.
C6_UnsafeIff ==
    last.op = "is_cdp_unsafe" =>
        LET k == <<last.currency_id, last.who>>
            price == oracle[<<last.currency_id, GetStableCurrencyId>>]
            ratio == calculate_collateral_ratio(last.currency_id, collaterals[k],
                                                debits[k], Unwrap(price))
        IN  /\ last.result <=> (debits[k] > 0 /\ IsSome(price)
                                /\ ratio < get_liquidation_ratio(last.currency_id))
            /\ debits[k] = 0 => ~last.result
            /\ price = None => ~last.result
            /\ (IsSome(price) /\ ratio = get_liquidation_ratio(last.currency_id))
                  => ~last.result

\* C6 witness: collateral 100 at price 3.0 against a debit value of 200 is exactly at the
\* liquidation ratio 1.5, and is_cdp_unsafe answered false
C6_Witness ==
    /\ last.op = "is_cdp_unsafe" /\ last.result = FALSE
    /\ debits[<<last.currency_id, last.who>>] = 200
    /\ collaterals[<<last.currency_id, last.who>>] = 100
    /\ oracle[<<last.currency_id, GetStableCurrencyId>>] = Some(30)
    /\ get_debit_exchange_rate(last.currency_id) = FixedDiv
    /\ get_liquidation_ratio(last.currency_id) = DefaultLiquidationRatio

\* the error of the first violated check of check_position_valid, in the order
\* InvalidFeedPrice, BelowRequiredCollateralRatio, BelowLiquidationRatio,
\* RemainDebitValueTooSmall; "Ok" when none is violated
FirstViolatedCheck(currency_id, collateral_balance, debit_balance) ==
    LET price == oracle[<<currency_id, GetStableCurrencyId>>]
        debit_value == get_debit_value(currency_id, debit_balance)
        ratio == calculate_collateral_ratio(currency_id, collateral_balance,
                                            debit_balance, Unwrap(price))
        required == collateral_params[currency_id].required_collateral_ratio
    IN  CASE price = None -> "InvalidFeedPrice"
          [] price # None /\ required # None /\ ratio < Unwrap(required)
                -> "BelowRequiredCollateralRatio"
          [] price # None /\ (required = None \/ ratio >= Unwrap(required))
             /\ ratio < get_liquidation_ratio(currency_id)
                -> "BelowLiquidationRatio"
          [] price # None /\ (required = None \/ ratio >= Unwrap(required))
             /\ ratio >= get_liquidation_ratio(currency_id)
             /\ debit_value < MinimumDebitValue
                -> "RemainDebitValueTooSmall"
          [] OTHER -> "Ok"

\* C7: check_position_valid accepts exactly when the debit value is zero (any
\* collateral, no price needed), or a price exists, the ratio is at least the required
\* ratio if that is set, at least the liquidation ratio, and the debit value is at least
\* MinimumDebitValue; otherwise it fails with the error of the first violated check.
C7_PositionValid ==
    last.op = "check_position_valid" =>
        LET c == last.currency_id
            debit_value == get_debit_value(c, last.debit_balance)
        IN  /\ debit_value = 0 => last.result = "Ok"
            /\ debit_value # 0 =>
                  last.result = FirstViolatedCheck(c, last.collateral_balance,
                                                   last.debit_balance)

\* C7 witness: a position below both the required ratio and the liquidation ratio was
\* rejected with BelowRequiredCollateralRatio
C7_Witness ==
    /\ last.op = "check_position_valid"
    /\ last.result = "BelowRequiredCollateralRatio"
    /\ IsSome(oracle[<<last.currency_id, GetStableCurrencyId>>])
    /\ calculate_collateral_ratio(last.currency_id, last.collateral_balance,
                                  last.debit_balance,
                                  Unwrap(oracle[<<last.currency_id, GetStableCurrencyId>>]))
          < get_liquidation_ratio(last.currency_id)

\* C25: the risk predicates agree.  In any single state (same price, risk parameters
\* and debit exchange rate) a position that check_position_valid accepts is not
\* reported unsafe by is_cdp_unsafe, also when its debit units are not zero and its
\* debit value rounds to zero.
C25_PredicatesAgree ==
    \A who \in AccountIds :
        ( /\ last.op = "check_position_valid" /\ last.result = "Ok"
          /\ last.collateral_balance = collaterals[<<last.currency_id, who>>]
          /\ last.debit_balance = debits[<<last.currency_id, who>>] )
            => ~is_cdp_unsafe(last.currency_id, who)

----------------------------------------------------------------------------
(* SpecRate: accrual and the debit cap.  Owners open positions in BTC and  *)
(* DOT, the fees and the cap of BTC are changed by privileged calls,       *)
(* blocks are finalized with every answer of the treasury, positions are   *)
(* liquidated (by auction) and, after shutdown, settled.                   *)

\* blocks finalized in a run
MaxBlocks == 2
\* blocks finalized in a run of the specifications in which accrual is a side issue
MaxAccrualBlocks == 1

\* fees of set_global_params: 0.1 per block, the largest Rate
GlobalFees == {1, MaxU128}
\* the patch of set_collateral_params: an extra stability fee of 0.1 and a lower cap
RateParamChange ==
    <<NewValue(Some(1)), NoChange, NoChange, NoChange, NewValue(GenesisDebitCap \div 2)>>

\* the collaterals on which a block finalized in the current state accrues
Accruing(c) == total_debits(c) > 0 /\ get_stability_fee(c) > 0

InitRate ==
    /\ Genesis({<<BTC, ALICE>>, <<BTC, BOB>>, <<DOT, ALICE>>})
    /\ oracle = [NoPrices EXCEPT ![<<BTC, AUSD>>] = Some(30), ![<<DOT, AUSD>>] = Some(30),
                                 ![<<AUSD, BTC>>] = Some(1), ![<<AUSD, DOT>>] = Some(1)]
    /\ max_slippage = 1
    /\ default_rate \in {FixedDiv \div 2, FixedDiv}

NextRate ==
    \/ \E who \in AccountIds, currency_id \in AllowedCollaterals :
          adjust_position(who, currency_id, 100, 200)
    \/ \E fee \in GlobalFees : set_global_params("Root", fee)
    \/ set_global_params("Signed", 1)
    \/ \E origin \in {"UpdateOrigin", "Signed"} :
          set_collateral_params(origin, BTC, RateParamChange)
    \/ \E surplus_ok \in [AllowedCollaterals -> BOOLEAN] :
          /\ blocks < MaxBlocks
          /\ \A c \in AllowedCollaterals : (is_shutdown \/ ~Accruing(c)) => surplus_ok[c]
          /\ on_finalize(surplus_ok)
    \/ on_emergency_shutdown
    \/ \E who \in AccountIds : liquidate("None", BTC, who, TRUE, 0, None, TRUE)
    \/ \E who \in AccountIds : settle("None", BTC, who, TRUE)

SpecRate == InitRate /\ [][NextRate]_vars

\* the sum over all accounts of the debit value of their position in currency_id
SumDebitValue(currency_id) ==
    LET RECURSIVE Sum(_)
        Sum(S) == IF S = {} THEN 0
                  ELSE LET a == CHOOSE x \in S : TRUE
                       IN  get_debit_value(currency_id, debits[<<currency_id, a>>])
                           + Sum(S \ {a})
    IN  Sum(AccountIds)

\* C8 as stated: after every state-changing call the debit values of every collateral
\* sum to at most its maximum_total_debit_value.
C8_DebitCapAfterEveryCall ==
    \A c \in AllowedCollaterals : SumDebitValue(c) <= maximum_total_debit_value(c)

\* C8 amended: at the close of every successful position adjustment that issues debit
\* (the call guarded by check_debit_cap), the debit values of the collateral sum to at
\* most its maximum_total_debit_value; liquidate and settle only lower the sum.
C8_DebitCapAfterIssue ==
    /\ [] ( (last.op = "adjust_position" /\ last.result = "Ok" /\ last.debit_adjustment > 0) =>
               /\ SumDebitValue(last.currency_id) <= maximum_total_debit_value(last.currency_id)
               /\ get_debit_value(last.currency_id, total_debits(last.currency_id))
                     <= maximum_total_debit_value(last.currency_id) )
    /\ [][ last'.op \in {"liquidate", "settle"} =>
              \A c \in AllowedCollaterals : SumDebitValue(c)' <= SumDebitValue(c) ]_vars

\* C8 witness: debit was issued to two owners and reached the cap exactly
C8_Witness ==
    /\ last.op = "adjust_position" /\ last.result = "Ok" /\ last.debit_adjustment > 0
    /\ \A a \in AccountIds : debits[<<last.currency_id, a>>] > 0
    /\ SumDebitValue(last.currency_id) = maximum_total_debit_value(last.currency_id)

\* C9: the effective debit exchange rate of every collateral never decreases from one
\* state to the next, under every operation (in particular while not shut down).
C9_RateNeverDecreases ==
    [][ \A c \in CurrencyIds : get_debit_exchange_rate(c)' >= get_debit_exchange_rate(c) ]_vars

\* C9 witness: two blocks accrued on BTC, the rate is above the default
C9_Witness ==
    /\ last.op = "on_finalize" /\ blocks = 2 /\ ~is_shutdown
    /\ IsSome(debit_exchange_rate[BTC])
    /\ get_debit_exchange_rate(BTC) > default_rate
    /\ get_debit_exchange_rate(BTC) < MaxU128

\* C10 as stated: in a block finalized while not shut down, for a collateral with
\* debits and a stability fee, the rate is unchanged exactly when on_system_surplus was
\* rejected.
C10_UnchangedIffRejected ==
    [][ (last'.op = "on_finalize" /\ ~is_shutdown) =>
        \A c \in AllowedCollaterals :
            Accruing(c) =>
                (get_debit_exchange_rate(c)' = get_debit_exchange_rate(c)
                    <=> ~last'.surplus_ok[c]) ]_vars

\* C10 amended: in such a block the rate is unchanged when on_system_surplus was
\* rejected, and is rate + rate * stability_fee (both saturating, the product rounded
\* down) when it was accepted; so a changed rate means an accepted surplus, and an
\* accepted surplus raises the rate unless the increment rounds to zero or the rate is
\* already the largest.
C10_RateAfterFinalize ==
    [][ (last'.op = "on_finalize" /\ ~is_shutdown) =>
        \A c \in AllowedCollaterals :
            Accruing(c) =>
                LET rate == get_debit_exchange_rate(c)
                    increment == Saturate((rate * get_stability_fee(c)) \div FixedDiv)
                IN  /\ ~last'.surplus_ok[c] => get_debit_exchange_rate(c)' = rate
                    /\ last'.surplus_ok[c] =>
                          get_debit_exchange_rate(c)' = Saturate(rate + increment)
                    /\ (last'.surplus_ok[c] /\ increment > 0 /\ rate < MaxU128) =>
                          get_debit_exchange_rate(c)' > rate
                    /\ get_debit_exchange_rate(c)' # rate => last'.surplus_ok[c] ]_vars

\* C10 witness: a block in which the surplus of BTC was accepted and that of DOT
\* rejected: the rate of BTC rose, the rate of DOT is still the default
C10_Witness ==
    /\ last.op = "on_finalize" /\ ~is_shutdown
    /\ last.surplus_ok[BTC] /\ ~last.surplus_ok[DOT]
    /\ Len(last.calls) = 2
    /\ get_debit_exchange_rate(BTC) > default_rate
    /\ debit_exchange_rate[DOT] = None

\* C11: shutdown is permanent and freezes accrual.  Once is_shutdown is true it is true
\* after every step; on_emergency_shutdown leaves is_shutdown true and, when repeated,
\* changes nothing else; an on_finalize that runs while shut down leaves every debit
\* exchange rate unchanged and makes no Treasury.on_system_surplus call.
C11_ShutdownFreezes ==
    [][ /\ is_shutdown => is_shutdown'
        /\ last'.op = "on_emergency_shutdown" =>
              /\ is_shutdown'
              /\ UNCHANGED <<debit_exchange_rate, global_stability_fee, collateral_params,
                             debits, collaterals, free, treasury_collateral, oracle, blocks>>
        /\ (last'.op = "on_finalize" /\ is_shutdown) =>
              /\ \A c \in CurrencyIds :
                    /\ debit_exchange_rate'[c] = debit_exchange_rate[c]
                    /\ get_debit_exchange_rate(c)' = get_debit_exchange_rate(c)
              /\ last'.calls = <<>> ]_vars

\* C11 witness: a block finalized after shutdown, with BTC in debt under a stability
\* fee and having accrued before the shutdown: no treasury call was made
C11_Witness ==
    /\ last.op = "on_finalize" /\ is_shutdown
    /\ Accruing(BTC) /\ Accruing(DOT)
    /\ IsSome(debit_exchange_rate[BTC]) /\ get_debit_exchange_rate(BTC) < MaxU128
    /\ last.calls = <<>>

\* the number of collaterals up to index i of the declared order on which a block
\* finalized in the current state accrues
AccruingUpTo(i) ==
    Cardinality({ j \in 1 .. i : Accruing(CollateralCurrencyIds[j]) })

\* C20: on_finalize, when not shut down, handles every collateral on its own, in the
\* declared order.  A collateral without stability fee or without debits gets no
\* treasury call and keeps its rate.  For every other one, with er its rate and
\* delta = er * stability_fee, Treasury.on_system_surplus(delta * debit value of the
\* total debits) is called exactly once, and the rate becomes er + delta if the call
\* succeeded (in the saturating fixed-point arithmetic of the rates) and stays er if it
\* was rejected, whatever happened to the other collaterals.  Nothing else changes.
C20_AccrualPerCollateral ==
    [][ (last'.op = "on_finalize" /\ ~is_shutdown) =>
        /\ Len(last'.calls) = AccruingUpTo(Len(CollateralCurrencyIds))
        /\ \A i \in 1 .. Len(CollateralCurrencyIds) :
              LET c == CollateralCurrencyIds[i]
                  er == IF IsSome(debit_exchange_rate[c])
                        THEN Unwrap(debit_exchange_rate[c]) ELSE default_rate
                  fee == Saturate(UnwrapOr(collateral_params[c].stability_fee, 0)
                                  + global_stability_fee)
                  delta == Saturate((er * fee) \div FixedDiv)
                  debit_value == Saturate((er * total_debits(c)) \div FixedDiv)
                  issue == Saturate((delta * debit_value) \div FixedDiv)
              IN  IF fee = 0 \/ total_debits(c) = 0
                  THEN debit_exchange_rate'[c] = debit_exchange_rate[c]
                  ELSE /\ last'.calls[AccruingUpTo(i)] =
                             Call("on_system_surplus", <<issue>>)
                       /\ debit_exchange_rate'[c] =
                             IF last'.surplus_ok[c] THEN Some(Saturate(er + delta))
                             ELSE debit_exchange_rate[c]
        /\ \A c \in CurrencyIds \ AllowedCollaterals :
              debit_exchange_rate'[c] = debit_exchange_rate[c]
        /\ UNCHANGED <<is_shutdown, global_stability_fee, collateral_params, debits,
                       collaterals, free, treasury_collateral, oracle>> ]_vars

\* C20 witness: the example at the accuracy of the model; global fee 0.1, no fee of
\* its own, rate 1.0: the surplus of BTC (total debits 400) was rejected and its rate
\* is still absent, DOT (total debits 200) after it was credited 20 and has rate 1.1
C20_Witness ==
    /\ last.op = "on_finalize" /\ ~is_shutdown /\ blocks = 1
    /\ global_stability_fee = 1 /\ default_rate = FixedDiv
    /\ collateral_params[BTC].stability_fee = None
    /\ total_debits(BTC) = 400 /\ total_debits(DOT) = 200
    /\ last.calls = << Call("on_system_surplus", <<40>>),
                       Call("on_system_surplus", <<20>>) >>
    /\ ~last.surplus_ok[BTC] /\ last.surplus_ok[DOT]
    /\ debit_exchange_rate[BTC] = None
    /\ debit_exchange_rate[DOT] = Some(11)

----------------------------------------------------------------------------
(* SpecSettle: settlement.  Two owners open positions in BTC with more or   *)
(* less collateral, a block of accrual may pass, the oracle publishes or    *)
(* withdraws the prices of both directions, the system is shut down and     *)
(* settle is dispatched with every answer of the ledger.                    *)

\* collateral locked by an owner opening a position
SettleCollaterals == {Endowment \div 2, Endowment}
\* debit units issued to an owner opening a position
SettleDebit == MinimumDebitValue
\* prices stablecoin -> BTC published: none, 0.3, 2.0
SettlePrices == {None, Some(3), Some(20)}

InitSettle ==
    /\ Genesis({<<BTC, ALICE>>, <<BTC, BOB>>})
    /\ oracle = [NoPrices EXCEPT ![<<BTC, AUSD>>] = Some(30)]
    /\ max_slippage = 1
    /\ default_rate = FixedDiv

\* the answer of the ledger's confiscation is consulted by this settle
SettleConfiscates(origin, currency_id, who) ==
    /\ origin = "None" /\ is_shutdown
    /\ debits[<<currency_id, who>>] > 0
    /\ IsSome(get_relative_price(GetStableCurrencyId, currency_id))

NextSettle ==
    \/ \E who \in AccountIds, collateral \in SettleCollaterals :
          adjust_position(who, BTC, collateral, SettleDebit)
    \/ set_global_params("Root", 1)
    \/ blocks < MaxAccrualBlocks /\ on_finalize([c \in AllowedCollaterals |-> TRUE])
    \/ \E price \in SettlePrices : feed_price(GetStableCurrencyId, BTC, price)
    \/ \E price \in {None, Some(30)} : feed_price(BTC, GetStableCurrencyId, price)
    \/ on_emergency_shutdown
    \/ \E origin \in {"None", "Signed"}, currency_id \in {BTC, ACA}, who \in AccountIds :
          /\ ~SettleConfiscates(origin, currency_id, who)
          /\ settle(origin, currency_id, who, TRUE)
    \/ \E who \in AccountIds, confiscate_ok \in BOOLEAN :
          /\ SettleConfiscates("None", BTC, who)
          /\ settle("None", BTC, who, confiscate_ok)

SpecSettle == InitSettle /\ [][NextSettle]_vars

\* the step is a settle dispatched with origin None
SettleStep == last'.op = "settle" /\ last'.origin = "None"
\* the position the settle of the step is about
SettledKey == <<last'.currency_id, last'.who>>

\* C12: a settle dispatched with origin None fails with MustAfterShutdown whenever the
\* system is not shut down, else with NoDebitValue when the position has no debit, else
\* with InvalidFeedPrice when the oracle has no price stablecoin -> C (whether or not it
\* has a price C -> stablecoin); on each of these failures the ledger and the treasury
\* are unchanged and no event is emitted.
C12_SettleRejections ==
    [][ SettleStep =>
        /\ ~is_shutdown => last'.result = "MustAfterShutdown"
        /\ (is_shutdown /\ debits[SettledKey] = 0) => last'.result = "NoDebitValue"
        /\ (is_shutdown /\ debits[SettledKey] > 0
            /\ oracle[<<GetStableCurrencyId, last'.currency_id>>] = None) =>
              last'.result = "InvalidFeedPrice"
        /\ last'.result \in {"MustAfterShutdown", "NoDebitValue", "InvalidFeedPrice"} =>
              /\ UNCHANGED <<debits, collaterals, free, treasury_collateral>>
              /\ last'.events = <<>> /\ last'.calls = <<>> ]_vars

\* C12 witness: a settle of a position in debt failed for want of the price
\* stablecoin -> BTC while the price BTC -> stablecoin was published
C12_Witness ==
    /\ last.op = "settle" /\ last.origin = "None" /\ last.result = "InvalidFeedPrice"
    /\ is_shutdown /\ debits[<<last.currency_id, last.who>>] > 0
    /\ oracle[<<last.currency_id, GetStableCurrencyId>>] = Some(30)
    /\ oracle[<<GetStableCurrencyId, last.currency_id>>] = None

\* C13: a successful settle(C, A) confiscates min(price(S -> C) * debit value, collat)
\* of collateral and the whole debit, in one call of the ledger: afterwards the debit of
\* the position is 0, its collateral is collat - confiscate >= 0, the treasury holds the
\* confiscated collateral, every other position is unchanged and SettleCDPInDebit(C, A)
\* is the one event.
C13_SettleConfiscation ==
    [][ (SettleStep /\ last'.result = "Ok") =>
        LET c == last'.currency_id
            a == last'.who
            debit == debits[SettledKey]
            collat == collaterals[SettledKey]
            price == Unwrap(oracle[<<GetStableCurrencyId, c>>])
            debit_value == (get_debit_exchange_rate(c) * debit) \div FixedDiv
            confiscate == Min((price * debit_value) \div FixedDiv, collat)
        IN  /\ is_shutdown /\ debit > 0
            /\ last'.calls = << Call("confiscate_collateral_and_debit",
                                     <<a, c, confiscate, debit>>) >>
            /\ debits' = [debits EXCEPT ![SettledKey] = 0]
            /\ collaterals' = [collaterals EXCEPT ![SettledKey] = collat - confiscate]
            /\ collaterals'[SettledKey] >= 0
            /\ treasury_collateral' =
                  [treasury_collateral EXCEPT ![c] = @ + confiscate]
            /\ last'.events = << Event("SettleCDPInDebit", <<c, a>>) >> ]_vars

\* C13 witness: the example; collateral 50, debit 100, exchange rate 1.0, price 2.0:
\* (50, 100) was confiscated and nothing remains; the other owner, settled at price 0.3
\* or not at all, keeps collateral
C13_Witness ==
    /\ last.op = "settle" /\ last.result = "Ok"
    /\ get_debit_exchange_rate(BTC) = FixedDiv
    /\ oracle[<<GetStableCurrencyId, BTC>>] = Some(20)
    /\ last.calls = << Call("confiscate_collateral_and_debit", <<ALICE, BTC, 50, 100>>) >>
    /\ collaterals[<<BTC, ALICE>>] = 0 /\ debits[<<BTC, ALICE>>] = 0
    /\ treasury_collateral[BTC] >= 50
    /\ collaterals[<<BTC, BOB>>] > 0

\* C14: a settle of the position that the previous operation settled successfully fails
\* with NoDebitValue and changes nothing; after a successful settle the ledger has no
\* debit for the position and validate_unsigned answers Stale for another settle of it.
C14_SecondSettleFails ==
    [][ /\ \A k \in Positions :
              (SettleStep /\ last'.result = "Ok" /\ SettledKey = k) =>
                  /\ debits'[k] = 0
                  /\ validate_unsigned([fn |-> "settle", currency_id |-> k[1],
                                        who |-> k[2]])'.validity = "Stale"
        /\ (SettleStep /\ last.op = "settle" /\ last.result = "Ok"
            /\ SettledKey = <<last.currency_id, last.who>>) =>
              /\ last'.result = "NoDebitValue"
              /\ last'.events = <<>> /\ last'.calls = <<>>
              /\ UNCHANGED <<debits, collaterals, free, treasury_collateral, is_shutdown,
                             debit_exchange_rate, collateral_params,
                             global_stability_fee>> ]_vars

\* C14 witness: the second of two settles in a row of the same position, with the price
\* still published, failed with NoDebitValue while the position keeps collateral
C14_Witness ==
    /\ last.op = "settle" /\ last.origin = "None" /\ last.result = "NoDebitValue"
    /\ is_shutdown
    /\ IsSome(oracle[<<GetStableCurrencyId, last.currency_id>>])
    /\ collaterals[<<last.currency_id, last.who>>] > 0
    /\ treasury_collateral[last.currency_id] > 0

----------------------------------------------------------------------------
(* SpecScan: the offchain scanner among the on-chain calls.  One owner has  *)
(* a position in DOT that the fall of DOT made unsafe; two owners open      *)
(* positions in BTC, the price of BTC falls, the scanner runs (as a         *)
(* validator or not, going through or being suspended, with every answer of *)
(* the transaction pool), suspended runs go on, the lock ages and expires,  *)
(* the calls proposed for BTC are dispatched and the system is shut down.   *)
(* The blocks go on while a run is suspended: a run reads the state of the  *)
(* block it was started for, and when it goes on the chain may have moved.  *)

\* random seeds of a cold start
ScanSeeds == 0 .. 1

\* debit units an owner issues against the whole endowment
ScanDebit(who) == IF who = ALICE THEN 2 * MinimumDebitValue ELSE MinimumDebitValue

\* prices BTC falls to: 2.0 (the position with the larger debit is unsafe, the other
\* is not) or 1.0 (both are)
ScanPrices == {Some(10), Some(20)}

\* The state after genesis, adjust_position(ALICE, DOT, Endowment, ScanDebit(ALICE)) at
\* the price 3.0 and the fall of DOT to 1.0.
InitScan ==
    /\ is_shutdown = FALSE
    /\ debit_exchange_rate = [c \in CurrencyIds |-> None]
    /\ global_stability_fee = 0
    /\ collateral_params = GenesisParams
    /\ debits = [k \in CurrencyIds \X AccountIds |->
                    IF k = <<DOT, ALICE>> THEN ScanDebit(ALICE) ELSE 0]
    /\ collaterals = [k \in CurrencyIds \X AccountIds |->
                         IF k = <<DOT, ALICE>> THEN Endowment ELSE 0]
    /\ free = [k \in CurrencyIds \X AccountIds |->
                  IF k \in {<<BTC, ALICE>>, <<BTC, BOB>>} THEN Endowment ELSE 0]
    /\ treasury_collateral = [c \in CurrencyIds |-> 0]
    /\ dex_collateral = [c \in CurrencyIds |-> 0]
    /\ collateral_in_auction = [c \in CurrencyIds |-> 0]
    /\ oracle = [NoPrices EXCEPT ![<<BTC, AUSD>>] = Some(30), ![<<DOT, AUSD>>] = Some(10),
                                 ![<<AUSD, BTC>>] = Some(3), ![<<AUSD, DOT>>] = Some(3)]
    /\ max_slippage = 1
    /\ default_rate = FixedDiv
    /\ offchain_position = None
    /\ offchain_lock = FALSE
    /\ offchain_lock_near = FALSE
    /\ stalled = <<>>
    /\ scan_log = <<>>
    /\ blocks = 0
    /\ liquidated = {}
    /\ last = [op |-> "genesis", result |-> "Ok", calls |-> <<>>, events |-> <<>>]

\* bound: the runs that are suspended at one time among the on-chain calls
ScanStalledRuns == 1

\* the inputs of a run that the run does not consult have one value
ScanInputs(is_validator, seed, submit_ok, progress, max_stalled) ==
    LET acquired == is_validator /\ ~offchain_lock
        position == next_position(offchain_position, seed)
        currency_id == CollateralCurrencyIds[position + 1]
    IN  /\ (~acquired \/ IsSome(offchain_position)) => seed = 0
        /\ ~acquired => progress = Len(DebitsPrefix)
        /\ Len(stalled) >= max_stalled => progress = Len(DebitsPrefix)
        /\ \A i \in 1 .. Len(DebitsPrefix) :
              (~acquired \/ i > progress \/ ~IsSome(proposal(currency_id, DebitsPrefix[i])))
                  => submit_ok[DebitsPrefix[i]]

NextScan ==
    \/ \E who \in AccountIds : adjust_position(who, BTC, Endowment, ScanDebit(who))
    \/ \E price \in ScanPrices : feed_price(BTC, GetStableCurrencyId, price)
    \/ on_emergency_shutdown
    \/ \E is_validator \in BOOLEAN, seed \in ScanSeeds,
          submit_ok \in [AccountIds -> BOOLEAN], progress \in 0 .. Len(DebitsPrefix) :
          /\ ScanInputs(is_validator, seed, submit_ok, progress, ScanStalledRuns)
          /\ offchain_worker(is_validator, seed, submit_ok, progress)
    \/ \E i \in 1 .. ScanStalledRuns, n \in 1 .. Len(DebitsPrefix),
          submit_ok \in [AccountIds -> BOOLEAN] :
          offchain_worker_resume(i, n, submit_ok)
    \/ offchain_lock_age
    \/ offchain_lock_expire
    \/ \E who \in AccountIds : liquidate("None", BTC, who, TRUE, 0, None, TRUE)
    \/ \E who \in AccountIds : settle("None", BTC, who, TRUE)

SpecScan == InitScan /\ [][NextScan]_vars

\* the positions recorded in a log
Logged(log) == { log[i] : i \in 1 .. Len(log) }

\* C19: scanner rotation.  A run that acquires the lock takes a position in [0, N),
\* N = |AllowedCollaterals|: any index of that range at a cold start, (previous + 1)
\* mod N afterwards; it records the position with the lock, scans exactly the one
\* collateral at that position and makes proposals for no other; the latest N runs that
\* acquired the lock scanned every collateral.  A run that does not acquire the lock
\* scans nothing and leaves the recorded position alone.
C19_ScannerRotation ==
    [][ last'.op = "offchain_worker" =>
        LET N == Len(CollateralCurrencyIds)
        IN  IF IsSome(last'.position)
            THEN LET position == Unwrap(last'.position)
                 IN  /\ position \in 0 .. N - 1
                     /\ IsSome(offchain_position) =>
                           position = (Unwrap(offchain_position) + 1) % N
                     /\ offchain_position' = Some(position)
                     /\ last'.scanned = << CollateralCurrencyIds[position + 1] >>
                     /\ \A i \in 1 .. Len(last'.submissions) :
                           last'.submissions[i].call.currency_id =
                               CollateralCurrencyIds[position + 1]
                     /\ Len(scan_log') = N => Logged(scan_log') = 0 .. N - 1
            ELSE /\ offchain_position' = offchain_position
                 /\ last'.scanned = <<>> /\ last'.submissions = <<>> ]_vars

\* C19 witness: after a cold start at the last index the next run wrapped around to
\* index 0 and scanned BTC, proposing a call
C19_Witness ==
    /\ last.op = "offchain_worker" /\ last.position = Some(0)
    /\ scan_log = <<1, 0>>
    /\ last.scanned = <<BTC>>
    /\ Len(last.submissions) > 0

\* the run of the last step, when it acquired the lock
ScanRun == last'.op = "offchain_worker" /\ IsSome(last'.position)

\* the run of the last step, when it went on after a suspension
ResumedRun == last'.op = "offchain_worker_resume"

\* the calls a run handed to the transaction pool
Submitted(submissions) == { submissions[i].call : i \in 1 .. Len(submissions) }

\* the calls the spec asks of a run for the collateral C: liquidate(C, A) for every
\* unsafe account while not shut down, settle(C, A) for every account in debt after
RightCalls(C) ==
    IF ~is_shutdown
    THEN { [fn |-> "liquidate", currency_id |-> C, who |-> A] :
              A \in { a \in AccountIds : is_cdp_unsafe(C, a) } }
    ELSE { [fn |-> "settle", currency_id |-> C, who |-> A] :
              A \in { a \in AccountIds : debits[<<C, a>>] > 0 } }

\* the calls the spec asks of a run for the collateral C in the state the run observed
RightCallsFor(C, observed) ==
    IF ~observed.is_shutdown
    THEN { [fn |-> "liquidate", currency_id |-> C, who |-> A] : A \in observed.unsafe }
    ELSE { [fn |-> "settle", currency_id |-> C, who |-> A] : A \in observed.indebted }

\* C21 as stated: scanner proposals.  A run for the chosen collateral C that completes
\* its iteration has submitted exactly the right calls, each once: liquidate(C, A) for
\* every account A with is_unsafe(C, A) when not shut down, settle(C, A) for every
\* account with debit > 0 when shut down.  No run, completed or not, submits anything
\* else: never a call for another collateral, never liquidate while shut down, never
\* settle while not shut down.
C21_ScannerProposals ==
    [][ (ScanRun \/ ResumedRun) =>
        LET C == CollateralCurrencyIds[Unwrap(last'.position) + 1]
            calls == Submitted(last'.submissions)
        IN  /\ calls \subseteq RightCalls(C)
            /\ Cardinality(calls) = Len(last'.submissions)
            /\ last'.result = "Ok" => calls = RightCalls(C)
            /\ \A c \in calls :
                  /\ c.currency_id = C
                  /\ c.fn = (IF is_shutdown THEN "settle" ELSE "liquidate") ]_vars

\* C21 amended: the right calls are those of the state of the block the run was
\* started for.  A run that goes through in one go submits exactly the right calls of
\* the current state, each once, and nothing else.  A run that is suspended and goes on
\* later submits, over its whole course, exactly the right calls of the state it
\* observed at its start, each once, and nothing else: never a call for another
\* collateral, liquidate if and only if the system was not shut down at its start;
\* the chain may have moved meanwhile, so it can submit liquidate after the shutdown
\* or a call for an account that is no longer unsafe or in debt.
C21_ProposalsForObservedState ==
    [][ /\ ScanRun =>
              LET C == CollateralCurrencyIds[Unwrap(last'.position) + 1]
                  calls == Submitted(last'.submissions)
              IN  /\ calls \subseteq RightCalls(C)
                  /\ Cardinality(calls) = Len(last'.submissions)
                  /\ last'.result = "Ok" => calls = RightCalls(C)
                  /\ \A c \in calls :
                        /\ c.currency_id = C
                        /\ c.fn = (IF is_shutdown THEN "settle" ELSE "liquidate")
        /\ ResumedRun =>
              LET C == CollateralCurrencyIds[Unwrap(last'.position) + 1]
                  calls == Submitted(last'.submissions)
                  right == RightCallsFor(C, last'.observed)
              IN  /\ calls \subseteq right
                  /\ Cardinality(calls) = Len(last'.submissions)
                  /\ last'.result = "Ok" => calls = right
                  /\ \A c \in calls :
                        /\ c.currency_id = C
                        /\ c.fn = (IF last'.observed.is_shutdown THEN "settle"
                                   ELSE "liquidate") ]_vars

\* C21 witness: a run for BTC was started while ALICE was unsafe and BOB in debit and
\* safe, and was suspended before its first account; the system was shut down; the run
\* went on, proposed liquidate(BTC, ALICE) and nothing else, and completed
C21_Witness ==
    /\ last.op = "offchain_worker_resume" /\ last.result = "Ok"
    /\ last.scanned = <<BTC>>
    /\ ~last.observed.is_shutdown
    /\ last.observed.unsafe = {ALICE} /\ last.observed.indebted = {ALICE, BOB}
    /\ is_shutdown
    /\ last.submissions =
          << [call |-> [fn |-> "liquidate", currency_id |-> BTC, who |-> ALICE],
              ok |-> TRUE] >>

\* the state of the chain, which the scanner only reads
OnChain ==
    <<is_shutdown, debit_exchange_rate, global_stability_fee, collateral_params, debits,
      collaterals, free, treasury_collateral, oracle, blocks>>

\* C22 as stated: scanner errors end the run.  A NotValidator error ends the run before
\* the lock is acquired or any proposal is submitted; after a SubmitTransaction error
\* no further proposal is submitted in that run; no on-chain state is changed.
C22_SubmitErrorEndsRun ==
    [][ last'.op = "offchain_worker" =>
        /\ last'.result = "NotValidator" =>
              /\ last'.submissions = <<>> /\ last'.position = None
              /\ UNCHANGED <<offchain_lock, offchain_position>>
        /\ \A i \in 1 .. Len(last'.submissions) :
              ~last'.submissions[i].ok => i = Len(last'.submissions)
        /\ UNCHANGED OnChain ]_vars

\* C22 amended: a NotValidator error ends the run before the lock is acquired or any
\* proposal is submitted.  A SubmitTransaction error is logged and the run goes on: the
\* following accounts are examined and their proposals submitted as if the submission
\* had succeeded, so whatever the transaction pool answers a run that completes its
\* iteration, in one go or after a suspension, has submitted every right call of the
\* state it observed and returns Ok.  In no case is on-chain state changed.
C22_SubmitErrorLogged ==
    [][ last'.op \in {"offchain_worker", "offchain_worker_resume"} =>
        /\ last'.result = "NotValidator" =>
              /\ last'.submissions = <<>> /\ last'.position = None
              /\ UNCHANGED <<offchain_lock, offchain_position>>
        /\ (ScanRun /\ ~(offchain_lock')) =>
              /\ last'.result = "Ok"
              /\ Submitted(last'.submissions) =
                    RightCalls(CollateralCurrencyIds[Unwrap(last'.position) + 1])
        /\ (ResumedRun /\ last'.result = "Ok") =>
              Submitted(last'.submissions) =
                  RightCallsFor(CollateralCurrencyIds[Unwrap(last'.position) + 1],
                                last'.observed)
        /\ UNCHANGED OnChain ]_vars

\* C22 witness: a completed run in which the pool refused the first proposal and the
\* second was submitted all the same
C22_Witness ==
    /\ last.op = "offchain_worker" /\ last.result = "Ok" /\ ~offchain_lock
    /\ Len(last.submissions) = 2
    /\ ~last.submissions[1].ok
    /\ last.submissions[2].ok
    /\ last.submissions[1].call.who # last.submissions[2].call.who

----------------------------------------------------------------------------
(* SpecLock: the offchain lock among runs that overlap.  Two owners open    *)
(* positions in BTC and the price falls; the worker is started again and    *)
(* again (as a validator or not, going through or being suspended after any *)
(* number of accounts), suspended runs go on at any later time, and time    *)
(* passes for the lock: it comes near its expiry and expires unless an      *)
(* iteration extends it.  The transaction pool accepts what a run submits   *)
(* after a suspension.                                                      *)

InitLock ==
    /\ Genesis({<<BTC, ALICE>>, <<BTC, BOB>>})
    /\ oracle = [NoPrices EXCEPT ![<<BTC, AUSD>>] = Some(30), ![<<DOT, AUSD>>] = Some(30),
                                 ![<<AUSD, BTC>>] = Some(3), ![<<AUSD, DOT>>] = Some(3)]
    /\ max_slippage = 1
    /\ default_rate = FixedDiv

NextLock ==
    \/ \E who \in AccountIds : adjust_position(who, BTC, Endowment, ScanDebit(who))
    \/ feed_price(BTC, GetStableCurrencyId, Some(10))
    \/ \E is_validator \in BOOLEAN, seed \in ScanSeeds,
          submit_ok \in [AccountIds -> BOOLEAN], progress \in 0 .. Len(DebitsPrefix) :
          /\ ScanInputs(is_validator, seed, submit_ok, progress, MaxStalledRuns)
          /\ offchain_worker(is_validator, seed, submit_ok, progress)
    \/ \E i \in 1 .. MaxStalledRuns, n \in 1 .. Len(DebitsPrefix) :
          offchain_worker_resume(i, n, [a \in AccountIds |-> TRUE])
    \/ offchain_lock_age
    \/ offchain_lock_expire

SpecLock == InitLock /\ [][NextLock]_vars

\* the suspended runs that hold the lock: each acquired it, and it has neither expired
\* nor been released since
Holders(runs) == { k \in 1 .. Len(runs) : runs[k].holds }

\* a run acquires the lock only when no run holds it, so at most one run holds it
C23_AtMostOneHolder ==
    /\ ScanRun => (~offchain_lock /\ Holders(stalled) = {})
    /\ Cardinality(Holders(stalled')) <= 1
    /\ Holders(stalled') # {} => offchain_lock'

\* a run that fails to acquire the lock scans nothing, submits nothing and leaves the
\* lock and the recorded position as they are
C23_RefusedRunIdle ==
    (last'.op = "offchain_worker" /\ offchain_lock) =>
        /\ last'.result \in {"OffchainLock", "NotValidator"}
        /\ last'.scanned = <<>> /\ last'.submissions = <<>>
        /\ UNCHANGED <<offchain_lock, offchain_lock_near, offchain_position, stalled,
                       scan_log>>

\* every run that completes its iteration, in one go or after a suspension, releases
\* the lock, and the position index stays recorded for the next run
C23_CompletedRunReleases ==
    /\ (ScanRun /\ last'.result = "Ok") =>
          /\ ~(offchain_lock')
          /\ offchain_position' = last'.position
    /\ (ResumedRun /\ last'.result = "Ok") =>
          /\ ~(offchain_lock')
          /\ offchain_position' = offchain_position

\* a run that stalls keeps the lock, and is superseded only after the expiry of the
\* lock: the lock that is held is given up by its expiry or by the completion of the
\* run that holds it, and by nothing else
C23_SupersededAfterExpiry ==
    /\ (ScanRun /\ last'.result = "Stalled") =>
          /\ offchain_lock'
          /\ offchain_position' = last'.position
    /\ (offchain_lock /\ ~(offchain_lock')) =>
          /\ \/ last'.op = "offchain_lock_expire"
             \/ ResumedRun /\ last'.result = "Ok" /\ last'.holds
          /\ offchain_position' = offchain_position

\* C23: single-instance discipline.  At most one scanner run holds the offchain lock at
\* any time; a run that fails to acquire the lock scans nothing and submits nothing;
\* every run that completes its iteration releases the lock while the stored position
\* index is retained for the next run; a run that stalls is superseded only after the
\* expiry of the lock.
C23_SingleInstance ==
    [][ /\ C23_AtMostOneHolder
        /\ C23_RefusedRunIdle
        /\ C23_CompletedRunReleases
        /\ C23_SupersededAfterExpiry ]_vars

----------------------------------------------------------------------------
(* SpecParams: the parameters.  set_collateral_params and set_global_params *)
(* are called from every origin, for allowed and other collaterals, with    *)
(* patches that give all, some or none of the fields; around them one owner *)
(* opens a position, a block is finalized, the scanner runs, the position   *)
(* is liquidated or settled and the system is shut down.                    *)

\* the arguments of set_collateral_params in the order of the call: stability_fee,
\* liquidation_ratio, liquidation_penalty, required_collateral_ratio,
\* maximum_total_debit_value
NoChanges == <<NoChange, NoChange, NoChange, NoChange, NoChange>>
AllNewValues ==
    <<NewValue(Some(1)), NewValue(Some(20)), NewValue(Some(2)), NewValue(Some(30)),
      NewValue(GenesisDebitCap \div 2)>>
ParamChanges ==
    { NoChanges, AllNewValues,
      <<NewValue(None), NoChange, NewValue(Some(1)), NewValue(None), NoChange>> }

InitParams ==
    /\ Genesis({<<BTC, ALICE>>})
    /\ oracle = [NoPrices EXCEPT ![<<BTC, AUSD>>] = Some(30), ![<<AUSD, BTC>>] = Some(3)]
    /\ max_slippage = 1
    /\ default_rate = FixedDiv

NextParams ==
    \/ \E origin \in {"Root", "UpdateOrigin"}, change \in ParamChanges :
          set_collateral_params(origin, BTC, change)
    \/ \E origin \in {"Signed", "None"}, currency_id \in {BTC, ACA} :
          set_collateral_params(origin, currency_id, AllNewValues)
    \/ \E change \in {NoChanges, AllNewValues} :
          set_collateral_params("Root", ACA, change)
    \/ set_collateral_params("Root", DOT, AllNewValues)
    \/ \E origin \in Origins : set_global_params(origin, 1)
    \/ adjust_position(ALICE, BTC, 100, 200)
    \/ blocks < MaxAccrualBlocks /\ on_finalize([c \in AllowedCollaterals |-> TRUE])
    \/ on_emergency_shutdown
    \/ liquidate("None", BTC, ALICE, TRUE, 0, None, TRUE)
    \/ settle("None", BTC, ALICE, TRUE)
    \/ offchain_worker(TRUE, 0, [a \in AccountIds |-> TRUE], Len(DebitsPrefix))

SpecParams == InitParams /\ [][NextParams]_vars

\* the origins that may update the parameters
Privileged == {"UpdateOrigin", "Root"}

\* C16: CollateralParams changes only in a successful set_collateral_params from
\* UpdateOrigin or Root and GlobalStabilityFee only in a set_global_params from
\* UpdateOrigin or Root; the same calls from another origin fail with BadOrigin, emit
\* nothing and change no state; liquidate, settle, on_finalize, on_emergency_shutdown
\* and the offchain scanner change neither.
C16_PrivilegedParams ==
    [][ /\ collateral_params' # collateral_params =>
              /\ last'.op = "set_collateral_params" /\ last'.result = "Ok"
              /\ last'.origin \in Privileged
        /\ global_stability_fee' # global_stability_fee =>
              /\ last'.op = "set_global_params" /\ last'.result = "Ok"
              /\ last'.origin \in Privileged
        /\ (last'.op \in {"set_collateral_params", "set_global_params"}
            /\ last'.origin \notin Privileged) =>
              /\ last'.result = "BadOrigin" /\ last'.events = <<>>
              /\ UNCHANGED <<is_shutdown, debit_exchange_rate, global_stability_fee,
                             collateral_params, debits, collaterals, free,
                             treasury_collateral, oracle, offchain_position>>
        /\ last'.op \in {"liquidate", "settle", "on_finalize", "on_emergency_shutdown",
                         "offchain_worker"} =>
              UNCHANGED <<collateral_params, global_stability_fee>> ]_vars

\* C16 witness: after the parameters of BTC and the global fee were updated by
\* privileged origins, a signed set_collateral_params failed with BadOrigin
C16_Witness ==
    /\ last.op = "set_collateral_params" /\ last.origin = "Signed"
    /\ last.result = "BadOrigin"
    /\ collateral_params[BTC] # GenesisParams[BTC]
    /\ global_stability_fee = 1

\* the fields of RiskManagementParams and their update events, in the order of the
\* arguments of set_collateral_params
ParamFields ==
    << "stability_fee", "liquidation_ratio", "liquidation_penalty",
       "required_collateral_ratio", "maximum_total_debit_value" >>
ParamEvents ==
    << "StabilityFeeUpdated", "LiquidationRatioUpdated", "LiquidationPenaltyUpdated",
       "RequiredCollateralRatioUpdated", "MaximumTotalDebitValueUpdated" >>
\* the step is a set_collateral_params from a privileged origin
ParamsStep == last'.op = "set_collateral_params" /\ last'.origin \in Privileged
\* the indices at which the events of a call are the update event of field i
EventsOf(call, i) ==
    { j \in 1 .. Len(call.events) : call.events[j].name = ParamEvents[i] }

\* C17: set_collateral_params from a privileged origin is a field-wise patch.  For a
\* collateral that is not allowed it fails with InvalidCollateralType, changes no
\* parameters and emits nothing.  For an allowed one it succeeds: every field given as
\* NewValue(v) is v afterwards and its update event (C, v) is emitted once, every field
\* given as NoChange keeps its value and has no event, the events come in the order of
\* the fields, and the parameters of every other collateral are unchanged.
C17_FieldwisePatch ==
    [][ ParamsStep =>
        LET c == last'.currency_id
            change == last'.change
        IN  IF c \notin AllowedCollaterals
            THEN /\ last'.result = "InvalidCollateralType"
                 /\ collateral_params' = collateral_params
                 /\ last'.events = <<>>
            ELSE /\ last'.result = "Ok"
                 /\ \A i \in 1 .. 5 :
                       IF IsSome(change[i])
                       THEN /\ collateral_params'[c][ParamFields[i]] = Unwrap(change[i])
                            /\ Cardinality(EventsOf(last', i)) = 1
                            /\ \A j \in EventsOf(last', i) :
                                  last'.events[j].args = <<c, Unwrap(change[i])>>
                       ELSE /\ collateral_params'[c][ParamFields[i]] =
                                   collateral_params[c][ParamFields[i]]
                            /\ EventsOf(last', i) = {}
                 /\ Len(last'.events) = Cardinality({ i \in 1 .. 5 : IsSome(change[i]) })
                 /\ \A j, k \in 1 .. Len(last'.events) :
                       j < k => \E i1, i2 \in 1 .. 5 :
                                   /\ i1 < i2
                                   /\ j \in EventsOf(last', i1) /\ k \in EventsOf(last', i2)
                 /\ \A d \in CurrencyIds \ {c} :
                       collateral_params'[d] = collateral_params[d] ]_vars

\* C17 witness: on fully set parameters of BTC a patch reset the stability fee and the
\* required ratio to None, set the penalty and left the liquidation ratio and the cap;
\* the parameters of DOT had been set before and are intact
C17_Witness ==
    /\ last.op = "set_collateral_params" /\ last.result = "Ok" /\ last.currency_id = BTC
    /\ last.change = <<NewValue(None), NoChange, NewValue(Some(1)), NewValue(None), NoChange>>
    /\ collateral_params[BTC] =
          [maximum_total_debit_value |-> GenesisDebitCap \div 2, stability_fee |-> None,
           liquidation_ratio |-> Some(20), liquidation_penalty |-> Some(1),
           required_collateral_ratio |-> None]
    /\ Len(last.events) = 3
    /\ collateral_params[DOT].stability_fee = Some(1)

\* the step is a successful set_collateral_params that repeats the arguments of the
\* successful set_collateral_params before it
RepeatedParamsStep ==
    /\ last.op = "set_collateral_params" /\ last.result = "Ok"
    /\ last'.op = "set_collateral_params" /\ last'.result = "Ok"
    /\ last'.currency_id = last.currency_id /\ last'.change = last.change
    /\ last'.repeats

\* C18 as stated: of two consecutive set_collateral_params with identical arguments the
\* second emits no events, and after it the stored parameters equal the arguments.
C18_SecondCallSilent ==
    [][ RepeatedParamsStep =>
           /\ last'.events = <<>>
           /\ \A i \in 1 .. 5 :
                 IsSome(last'.change[i]) =>
                    collateral_params'[last'.currency_id][ParamFields[i]] =
                        Unwrap(last'.change[i]) ]_vars

\* C18 amended: of two consecutive set_collateral_params with identical arguments the
\* second emits the same events as the first (one per field given as NewValue, whether
\* or not the value differs from the stored one) and leaves the stored parameters as the
\* first left them; after each call every field given as NewValue equals its argument,
\* and applying the same patch again would change nothing.
C18_SecondCallRepeats ==
    [][ /\ RepeatedParamsStep =>
              /\ last'.events = last.events
              /\ Len(last'.events) =
                    Cardinality({ i \in 1 .. 5 : IsSome(last'.change[i]) })
              /\ collateral_params' = collateral_params
        /\ \A c \in AllowedCollaterals, change \in ParamChanges :
              (ParamsStep /\ last'.result = "Ok" /\ last'.currency_id = c
               /\ last'.change = change) =>
                  /\ \A i \in 1 .. 5 :
                        IsSome(change[i]) =>
                            collateral_params'[c][ParamFields[i]] = Unwrap(change[i])
                  /\ patched_collateral_params(c, change)' = collateral_params'[c]
                  /\ last'.events = collateral_params_events(c, change)' ]_vars

\* C18 witness: the second of two consecutive identical calls giving every field: it
\* emitted the five events again
C18_Witness ==
    /\ last.op = "set_collateral_params" /\ last.result = "Ok" /\ last.repeats
    /\ last.currency_id = BTC /\ last.change = AllNewValues
    /\ Len(last.events) = 5
    /\ collateral_params[BTC] =
          [maximum_total_debit_value |-> GenesisDebitCap \div 2,
           stability_fee |-> Some(1), liquidation_ratio |-> Some(20),
           liquidation_penalty |-> Some(2), required_collateral_ratio |-> Some(30)]

----------------------------------------------------------------------------
(* SpecLedger: where the collateral goes.  Two owners open positions in     *)
(* BTC, the prices of both directions move, positions are liquidated with   *)
(* every answer of the DEX and the treasury, the system is shut down and    *)
(* the remaining positions are settled.                                     *)

\* prices stablecoin -> BTC published for the settlement: 0.3, 2.0
LedgerSettlePrices == {Some(3), Some(20)}
\* prices of BTC in the stablecoin: 1.0, 3.0
LedgerFeedPrices == {Some(10), Some(30)}

InitLedger ==
    /\ Genesis({<<BTC, ALICE>>, <<BTC, BOB>>})
    /\ oracle = [NoPrices EXCEPT ![<<BTC, AUSD>>] = Some(30)]
    /\ max_slippage = 1
    /\ default_rate = FixedDiv

NextLedger ==
    \/ \E who \in AccountIds : adjust_position(who, BTC, 100, 200)
    \/ \E price \in LedgerFeedPrices : feed_price(BTC, GetStableCurrencyId, price)
    \/ \E price \in LedgerSettlePrices : feed_price(GetStableCurrencyId, BTC, price)
    \/ \E who \in AccountIds :
          /\ is_shutdown \/ ~is_cdp_unsafe(BTC, who)
          /\ liquidate("None", BTC, who, TRUE, 0, None, TRUE)
    \/ \E who \in AccountIds, confiscate_ok \in BOOLEAN, supply \in SupplyQuotes,
          slip \in SlippageQuotes, swap_ok \in BOOLEAN :
          /\ ~is_shutdown /\ is_cdp_unsafe(BTC, who)
          /\ liquidate("None", BTC, who, confiscate_ok, supply, slip, swap_ok)
    \/ on_emergency_shutdown
    \/ \E who \in AccountIds :
          /\ ~SettleConfiscates("None", BTC, who)
          /\ settle("None", BTC, who, TRUE)
    \/ \E who \in AccountIds, confiscate_ok \in BOOLEAN :
          /\ SettleConfiscates("None", BTC, who)
          /\ settle("None", BTC, who, confiscate_ok)

SpecLedger == InitLedger /\ [][NextLedger]_vars

\* the sum of f over the set S of its keys
RECURSIVE SumOver(_, _)
SumOver(f, S) ==
    IF S = {} THEN 0
    ELSE LET k == CHOOSE x \in S : TRUE IN f[k] + SumOver(f, S \ {k})

\* collateral c locked in owners' positions, and free in owners' hands
InPositions(c) == SumOver(collaterals, {c} \X AccountIds)
InFreeBalances(c) == SumOver(free, {c} \X AccountIds)
\* collateral c the treasury holds outside auctions
InTreasury(c) == treasury_collateral[c] - collateral_in_auction[c]
\* all the collateral c there is
Held(c) ==
    InPositions(c) + InFreeBalances(c) + InTreasury(c) + dex_collateral[c]
        + collateral_in_auction[c]

\* the holdings of collateral c: positions, free balances, treasury, DEX, auctions
Holdings(c) ==
    << [a \in AccountIds |-> collaterals[<<c, a>>]], [a \in AccountIds |-> free[<<c, a>>]],
       InTreasury(c), dex_collateral[c], collateral_in_auction[c] >>

\* the holdings of c after `amount` left the position of `who`, of which to_owner went
\* to the owner's free balance, to_treasury to the treasury, to_dex to the DEX and
\* to_auction into auctions
Moved(c, who, amount, to_owner, to_treasury, to_dex, to_auction) ==
    << [a \in AccountIds |-> collaterals[<<c, a>>] - (IF a = who THEN amount ELSE 0)],
       [a \in AccountIds |-> free[<<c, a>>] + (IF a = who THEN to_owner ELSE 0)],
       InTreasury(c) + to_treasury, dex_collateral[c] + to_dex,
       collateral_in_auction[c] + to_auction >>

\* C26: collateral is conserved.  In every step, for every collateral C, the total of C
\* in owners' positions, owners' free balances, the treasury, the DEX and the auctions
\* stays the same.  A successful liquidation moves exactly collat out of the owner's
\* position: supply to the DEX and collat - supply to the owner when the swap succeeds,
\* all of it to the treasury when the swap fails, all of it into auctions on the Auction
\* path.  A successful settlement moves exactly the confiscated amount from the position
\* to the treasury.  A liquidate or settle that fails moves nothing, and neither call
\* touches another collateral.
C26_CollateralConserved ==
    [][ /\ \A c \in CurrencyIds : Held(c)' = Held(c)
        /\ \A C \in CurrencyIds, A \in AccountIds :
              ( /\ last'.op \in {"liquidate", "settle"}
                /\ last'.currency_id = C /\ last'.who = A ) =>
              LET collat == collaterals[<<C, A>>]
              IN  /\ \A c \in CurrencyIds \ {C} : Holdings(c)' = Holdings(c)
                  /\ Holdings(C)' =
                        IF last'.result # "Ok" THEN Holdings(C)
                        ELSE IF last'.op = "settle"
                        THEN LET confiscated == last'.calls[1].args[3]
                             IN  Moved(C, A, confiscated, 0, confiscated, 0, 0)
                        ELSE LET supply == Unwrap(last'.quote).supply
                             IN  IF last'.swap = Some(TRUE)
                                 THEN Moved(C, A, collat, collat - supply, 0, supply, 0)
                                 ELSE IF last'.swap = Some(FALSE)
                                 THEN Moved(C, A, collat, 0, collat, 0, 0)
                                 ELSE Moved(C, A, collat, 0, 0, 0, collat) ]_vars

\* C26 witness: one owner was liquidated through the DEX (60 swapped, 40 refunded); after
\* shutdown the settlement of the other at 0.3 took 60 of the 100 locked for the
\* treasury and left 40 in the position
C26_Witness ==
    /\ last.op = "settle" /\ last.result = "Ok"
    /\ dex_collateral[BTC] = 60
    /\ InTreasury(BTC) = 60 /\ collateral_in_auction[BTC] = 0
    /\ collaterals[<<BTC, last.who>>] = 40
    /\ InFreeBalances(BTC) = 40
    /\ Held(BTC) = 2 * Endowment

=============================================================================
